---- MODULE Spec2Model ----
(***************************************************************************)
(* Rendezvous registration store of interplex (Registrations, backed by    *)
(* two LMDB sub-databases "registrations" and "expirations") and the       *)
(* identity model (NodeIdentifier) whose key() names the entries.          *)
(*                                                                         *)
(* Strings are sequences of one-character strings, so that formatting      *)
(* (format!, to_string), parsing (split_once, parse::<i64>), prefix        *)
(* iteration and the byte order of the store's keys are computed as the    *)
(* code computes them.  Option<T> is a sequence of length 0 (None) or 1    *)
(* (Some).  A DateTime<Utc> is a number of clock ticks since the epoch;    *)
(* timestamp() drops the sub-second part.                                  *)
(***************************************************************************)
EXTENDS Integers, Sequences, FiniteSets, TLC

VARIABLES
    registrations,  \* sub-database "registrations": locator key -> Registration
    expirations,    \* sub-database "expirations": "<unix_ts>:<key>" -> key
    now,            \* Utc::now(), in ticks
    calls,          \* number of store calls made so far
    ret,            \* the last store call: its inputs and what it returned
    \* the rendezvous client (client::Behaviour) and its surroundings
    external_addresses,     \* Behaviour.addresses (ExternalAddresses)
    processing_requests,    \* request id -> (target, command)
    rendezvous_points,      \* server peer id -> (next expiration, token)
    peers,                  \* peer id -> (server, Registration, token)
    expiring_peers,         \* the pending timers of peers
    expiring_registrations, \* the pending timers of rendezvous_points
    wire,           \* requests handed to the inner layer, not yet answered
    inbox,          \* events the inner layer has ready for the next poll
    connected,      \* rendezvous servers a connection was established to
    next_request,   \* the next OutboundRequestId of the inner layer
    next_token,     \* the next fresh Uuid
    crashed,        \* the client panicked
    terminal,       \* request id -> number of terminal events emitted
    step,           \* the last client step: inputs, state before, outputs
    served,         \* the last poll of the server: inputs, state before, outputs
    server_down,    \* the server behaviour panicked
    rendezvous_nodes, \* NodeBuilder.rendezvous_nodes: peer id -> address
    network_points, \* NetworkHandler.rendezvous_points: peer id -> address
    dialed,         \* the addresses handed to swarm.dial
    built,          \* the facade: "builder", "running" or "failed"
    facade,         \* the last facade call: inputs, state before, result
    \* the tasks of the node facade (NetworkHandler::event_loop)
    network_peers,  \* NetworkHandler.peers: peer id -> (rendezvous nodes, identity)
    locks,          \* mutex -> the tasks that called lock(), the holder first
    tasks,          \* the tasks spawned by the event loop, in order
    event_loop,     \* the position of the event loop
    edition,        \* the edition the crate is compiled under
    events,         \* the events sent on the events channel
    responses,      \* the responses sent on the response channels
    handled         \* the rendezvous events handled so far, in order

storeVars == <<registrations, expirations, now, calls, ret>>

clientVars == <<external_addresses, processing_requests, rendezvous_points, peers,
                expiring_peers, expiring_registrations, wire, inbox,
                connected, next_request, next_token, crashed, terminal,
                step>>

serverVars == <<served, server_down>>

facadeVars == <<rendezvous_nodes, network_points, dialed, built, facade>>

handlerVars == <<network_peers, locks, tasks, event_loop, edition, events,
                 responses, handled>>

hostVars == <<serverVars, facadeVars, handlerVars>>

vars == <<storeVars, clientVars, hostVars>>

---------------------------------------------------------------------------
(* Bounds of the model *)

\* resolution of the clock: ticks per second (sub-second instants exist)
TicksPerSecond == 2
\* the clock runs for MaxTicks ticks after the store is opened
MaxTicks == 4
\* number of store calls in one behaviour
MaxCalls == 4

\* Unix second at which the store is opened; the decimal width of the
\* timestamp changes right after it (9 -> 10)
ClockStart == 9

---------------------------------------------------------------------------
(* Strings *)

None == <<>>
Some(x) == <<x>>

\* the characters that occur, in byte (ASCII) order
Bytes == <<"/", "0", "1", "2", "3", "4", "5", "6", "7", "8", "9", ":",
           "a", "d", "e", "f", "g", "h", "l", "n", "p", "q", "r", "s",
           "t", "u">>

Code(c) == CHOOSE i \in 1..Len(Bytes) : Bytes[i] = c

Digits == <<"0", "1", "2", "3", "4", "5", "6", "7", "8", "9">>

IsDigit(c) == \E i \in 1..Len(Digits) : Digits[i] = c

DigitValue(c) == (CHOOSE i \in 1..Len(Digits) : Digits[i] = c) - 1

\* i64::to_string of a non-negative number: decimal, no padding
RECURSIVE to_string(_)
to_string(n) ==
    IF n < 10 THEN <<Digits[n + 1]>>
    ELSE to_string(n \div 10) \o <<Digits[(n % 10) + 1]>>

\* str::parse::<i64> of an unsigned decimal: Some(value), or None on error
RECURSIVE ParseDigits(_, _)
ParseDigits(s, acc) ==
    IF s = <<>> THEN acc
    ELSE ParseDigits(Tail(s), acc * 10 + DigitValue(Head(s)))

ParseI64(s) ==
    IF Len(s) > 0 /\ \A i \in 1..Len(s) : IsDigit(s[i])
    THEN Some(ParseDigits(s, 0))
    ELSE None

\* str::split_once(":"): Some(<<before, after>>) at the first ":", or None
SplitOnce(s) ==
    IF \E i \in 1..Len(s) : s[i] = ":"
    THEN LET i == CHOOSE j \in 1..Len(s) :
                      s[j] = ":" /\ \A k \in 1..(j - 1) : s[k] # ":"
         IN  Some(<<SubSeq(s, 1, i - 1), SubSeq(s, i + 1, Len(s))>>)
    ELSE None

StartsWith(s, p) == Len(p) <= Len(s) /\ SubSeq(s, 1, Len(p)) = p

\* the store's key order: bytewise, a proper prefix first
LexLess(a, b) ==
    \E i \in 1..(Len(a) + 1) :
        /\ i <= Len(b)
        /\ \A k \in 1..(i - 1) : a[k] = b[k]
        /\ (i = Len(a) + 1 \/ Code(a[i]) < Code(b[i]))

\* the keys of S in the store's order
RECURSIVE SortedKeys(_)
SortedKeys(S) ==
    IF S = {} THEN <<>>
    ELSE LET m == CHOOSE x \in S : \A y \in S \ {x} : LexLess(x, y)
         IN  <<m>> \o SortedKeys(S \ {m})

---------------------------------------------------------------------------
(* Identity model *)

Discoverability == {"Namespace", "Group", "Direct"}

NodeIdentifier(p, ns, al, g, md, d) ==
    [peer_id |-> p, namespace |-> ns, alias |-> al, group |-> g,
     metadata |-> md, discoverability |-> d]

\* NodeIdentifier::group
group(node) ==
    IF node.group = None THEN <<"d", "e", "f", "a", "u", "l", "t">>
    ELSE node.group[1]

\* NodeIdentifier::key
key(node) ==
    node.namespace \o <<"/">> \o group(node) \o <<":", ":">> \o node.peer_id

---------------------------------------------------------------------------
(* Clock *)

\* DateTime::timestamp
timestamp(t) == t \div TicksPerSecond

\* DateTime::from_timestamp(ts, 0)
from_timestamp(ts) == ts * TicksPerSecond

\* TimeDelta of whole seconds
Seconds(s) == s * TicksPerSecond

---------------------------------------------------------------------------
(* The two sub-databases: ordered maps from strings *)

EmptyDb == [k \in {} |-> k]

\* Database::put
Put(db, k, v) == [x \in (DOMAIN db) \cup {k} |-> IF x = k THEN v ELSE db[x]]

\* Database::delete (a missing key is tolerated)
Delete(db, k) == [x \in (DOMAIN db) \ {k} |-> db[x]]

\* Database::get
Lookup(db, k) == IF k \in DOMAIN db THEN Some(db[k]) ELSE None

\* Database::first: the entry with the least key
First(db) ==
    IF DOMAIN db = {} THEN None
    ELSE LET k == CHOOSE x \in DOMAIN db :
                      \A y \in (DOMAIN db) \ {x} : LexLess(x, y)
         IN  Some(<<k, db[k]>>)

\* Database::prefix_iter: the keys that start with prefix, in key order
PrefixIter(db, prefix) ==
    SortedKeys({k \in DOMAIN db : StartsWith(k, prefix)})

\* format!("{}:{}", ts, key)
ExpirationKey(ts, k) == to_string(ts) \o <<":">> \o k

---------------------------------------------------------------------------
(* Registrations: each operation is one committed transaction; it maps    *)
(* the committed store to the committed store and the value returned.     *)

Registration(identity, addresses, last_registration, ttl) ==
    [identity |-> identity, addresses |-> addresses,
     last_registration |-> last_registration, ttl |-> ttl]

\* Registration::expiration
expiration(reg) == reg.last_registration + reg.ttl

Committed(rdb, edb, result) == [rdb |-> rdb, edb |-> edb, result |-> result]

\* mutant: an update that keeps the stored ttl
UpdatedRegistrationKeepsTtl(reg, node, addresses, ttl, current_time) ==
    [reg EXCEPT !.addresses = addresses,
                !.identity.discoverability = node.discoverability,
                !.identity.alias = node.alias,
                !.identity.metadata = node.metadata,
                !.last_registration = current_time]

\* the existing registration with the request's fields written into it
UpdatedRegistration(reg, node, addresses, ttl, current_time) ==
    [reg EXCEPT !.addresses = addresses,
                !.identity.discoverability = node.discoverability,
                !.identity.alias = node.alias,
                !.identity.metadata = node.metadata,
                !.last_registration = current_time,
                !.ttl = ttl]

\* Registrations::register
register(rdb, edb, node, addresses, ttl, current_time) ==
    LET found    == Lookup(rdb, key(node))
        created  == IF found # None
                    THEN UpdatedRegistration(found[1], node, addresses, ttl,
                                             current_time)
                    ELSE Registration(node, addresses, current_time, ttl)
        last_exp == IF found # None
                    THEN Some(timestamp(found[1].last_registration))
                    ELSE None
        edb1     == IF last_exp # None
                    THEN Delete(edb, ExpirationKey(last_exp[1], key(node)))
                    ELSE edb
        edb2     == Put(edb1, ExpirationKey(timestamp(current_time), key(node)),
                        key(node))
        rdb1     == Put(rdb, key(created.identity), created)
    IN  Committed(rdb1, edb2, Some(created))

\* mutant: a deregister that deletes nothing
DeregisterKeeps(rdb, edb, node) == Committed(rdb, edb, None)

\* Registrations::deregister
deregister(rdb, edb, node) ==
    Committed(Delete(rdb, key(node)), edb, None)

\* the first expiry entry, when its timestamp says it is expired
Expired(edb, max_ttl, current_time) ==
    LET first == First(edb)
    IN  IF first = None THEN None
        ELSE LET split == SplitOnce(first[1][1])
             IN  IF split = None THEN None
                 ELSE LET ts == ParseI64(split[1][1])
                      IN  IF ts = None THEN None
                          ELSE IF from_timestamp(ts[1]) + max_ttl < current_time
                               THEN Some(<<first[1][1], first[1][2]>>)
                               ELSE None

\* the key under which poll deletes the expired registration
PollDeleteKey(expired_key, expired_value) == expired_key

\* Registrations::poll
poll(rdb, edb, max_ttl, current_time) ==
    LET expired == Expired(edb, max_ttl, current_time)
    IN  IF expired = None THEN Committed(rdb, edb, None)
        ELSE LET expired_key   == expired[1][1]
                 expired_value == expired[1][2]
                 edb1          == Delete(edb, expired_key)
                 reg           == Lookup(rdb, expired_value)
             IN  IF reg # None
                 THEN Committed(
                          Delete(rdb, PollDeleteKey(expired_key, expired_value)),
                          edb1, reg)
                 ELSE Committed(rdb, edb1, None)

\* the prefix Registrations::discover iterates
DiscoverPrefix(node, grp) ==
    IF grp # None
    THEN node.namespace \o <<"/">> \o grp[1] \o <<"/">>
    ELSE node.namespace \o <<"/">>

\* mutant: the requester's own key is not skipped
DiscoveredSelf(node, k, registration) ==
    \/ registration.identity.discoverability = "Namespace"
    \/ /\ registration.identity.discoverability = "Group"
       /\ group(registration.identity) = group(node)

\* mutant: mode Group is pushed without comparing the groups
DiscoveredAnyGroup(node, k, registration) ==
    /\ key(node) # k
    /\ registration.identity.discoverability \in {"Namespace", "Group"}

\* whether discover pushes the registration stored under k for requester node
Discovered(node, k, registration) ==
    /\ key(node) # k
    /\ \/ registration.identity.discoverability = "Namespace"
       \/ /\ registration.identity.discoverability = "Group"
          /\ group(registration.identity) = group(node)

RECURSIVE DiscoverLoop(_, _, _)
DiscoverLoop(rdb, node, keys) ==
    IF keys = <<>> THEN <<>>
    ELSE (IF Discovered(node, Head(keys), rdb[Head(keys)])
          THEN <<rdb[Head(keys)]>> ELSE <<>>)
         \o DiscoverLoop(rdb, node, Tail(keys))

\* Registrations::discover
discover(rdb, node, grp) ==
    DiscoverLoop(rdb, node, PrefixIter(rdb, DiscoverPrefix(node, grp)))

\* Registrations::get
get(rdb, k) == Lookup(rdb, k)

\* Registrations::groups (a HashSet collected into a Vec: a set)
groups(rdb, namespace) ==
    {rdb[k].identity.group[1] :
        k \in {x \in DOMAIN rdb : /\ StartsWith(x, namespace \o <<"/">>)
                                  /\ rdb[x].identity.group # None}}

---------------------------------------------------------------------------
(* The callers' inputs *)

n_ == <<"n">>
g_ == <<"g">>
h_ == <<"h">>

\* identities of the discovery specification: peers of namespace "n" in the
\* groups "g" and "h", a peer of the namespace "n/g", and one peer id under
\* (namespace "n", group "g/h") and under (namespace "n/g", group "h")
DiscoverNodes ==
    { NodeIdentifier(<<"p">>, n_, None, Some(g_), "m0", "Namespace"),
      NodeIdentifier(<<"p">>, n_, None, Some(g_), "m0", "Direct"),
      NodeIdentifier(<<"q">>, n_, None, Some(h_), "m0", "Group"),
      NodeIdentifier(<<"q">>, n_, None, Some(h_), "m0", "Namespace"),
      NodeIdentifier(<<"r">>, n_, None, Some(g_), "m0", "Group"),
      NodeIdentifier(<<"q">>, n_ \o <<"/">> \o g_, None, None, "m0",
                     "Namespace"),
      NodeIdentifier(<<"s">>, n_, None, Some(g_ \o <<"/">> \o h_), "m0",
                     "Group"),
      NodeIdentifier(<<"s">>, n_ \o <<"/">> \o g_, None, Some(h_), "m0",
                     "Namespace") }

\* the group arguments of Discover
DiscoverGroups == {None, Some(g_), Some(h_)}

\* TimeDelta values passed as ttl
Ttls == { Seconds(1), Seconds(2) }

p_namespace == NodeIdentifier(<<"p">>, n_, None, Some(g_), "m0", "Namespace")
p_direct == NodeIdentifier(<<"p">>, n_, Some("al"), Some(g_), "m1", "Direct")
q_group == NodeIdentifier(<<"q">>, n_, None, None, "m0", "Group")

\* the register calls of the store specification: <<node, addresses, ttl>>
StoreRegisters ==
    { <<p_namespace, <<"a1">>, Seconds(1)>>,
      <<p_namespace, <<"a2", "a1">>, Seconds(2)>>,
      <<p_direct, <<"a2", "a1">>, Seconds(1)>>,
      <<q_group, <<"a1">>, Seconds(1)>>,
      <<q_group, <<"a1">>, Seconds(2)>> }

\* identities of the store specification: one peer that re-registers with
\* changed alias, metadata and discoverability, and a second peer in the
\* default group
StoreNodes == { r[1] : r \in StoreRegisters }

---------------------------------------------------------------------------
(* State machine: the callers of the store *)

\* the record of a call; existed: the node's key was registered before the
\* call; again: the call before was a register with the same inputs
Call(op, node, addresses, ttl, grp, k, again, result, grps) ==
    [op |-> op, node |-> node, addresses |-> addresses, ttl |-> ttl,
     group |-> grp, key |-> k, at |-> now, again |-> again,
     existed |-> node # None /\ key(node[1]) \in DOMAIN registrations,
     result |-> result, groups |-> grps]

NoCall == [op |-> "none", node |-> None, addresses |-> <<>>, ttl |-> 0,
           group |-> None, key |-> <<>>, at |-> 0, again |-> FALSE,
           existed |-> FALSE, result |-> <<>>, groups |-> {}]

\* the last client step: what was called, the maps before it, the requests
\* it sent, the event it returned, the timers it took and its local error
NoStep == [op |-> "none", target |-> None, before |-> <<>>, sent |-> <<>>,
           event |-> None, fired |-> {}, polled |-> None, error |-> None, changed |-> FALSE]

\* client::Behaviour::new
ClientInit ==
    /\ external_addresses = <<>>
    /\ processing_requests = EmptyDb
    /\ rendezvous_points = EmptyDb
    /\ peers = EmptyDb
    /\ expiring_peers = {}
    /\ expiring_registrations = {}
    /\ wire = EmptyDb
    /\ inbox = <<>>
    /\ connected = {}
    /\ next_request = 1
    /\ next_token = 1
    /\ crashed = FALSE
    /\ terminal = EmptyDb
    /\ step = NoStep

\* no store call was made
NoResult == [ok |-> TRUE, value |-> <<>>, hit |-> FALSE]

\* the server before its first poll
NoServed == [op |-> "none", request |-> <<>>, sweep_fault |-> "none",
             fault |-> "none", deliverable |-> TRUE, swept |-> NoResult,
             result |-> NoResult, events |-> <<>>, responses |-> <<>>,
             failures |-> 0]

\* the facade before its first call
NoFacadeCall == [op |-> "none", addresses |-> <<>>, result |-> None,
                 nodes |-> <<>>, points |-> <<>>, dialed |-> {}]

\* the mutexes of NetworkHandler
LockNames == {"swarm", "streams", "peers", "rendezvous_points"}

\* server::Behavior::new and NodeBuilder::new
HostInit ==
    /\ served = NoServed
    /\ server_down = FALSE
    /\ rendezvous_nodes = EmptyDb
    /\ network_points = EmptyDb
    /\ dialed = {}
    /\ built = "builder"
    /\ facade = NoFacadeCall
    /\ network_peers = EmptyDb
    /\ locks = [l \in LockNames |-> <<>>]
    /\ tasks = <<>>
    /\ event_loop = "created"
    /\ edition = None
    /\ events = <<>>
    /\ responses = <<>>
    /\ handled = <<>>

Init ==
    /\ registrations = EmptyDb
    /\ expirations = EmptyDb
    /\ now = Seconds(ClockStart)
    /\ calls = 0
    /\ ret = NoCall
    /\ ClientInit
    /\ HostInit

\* the clock advances between calls
Tick ==
    /\ now < Seconds(ClockStart) + MaxTicks
    /\ now' = now + 1
    /\ UNCHANGED <<registrations, expirations, calls, ret, clientVars, hostVars>>

Register(node, addresses, ttl) ==
    /\ calls < MaxCalls
    /\ LET c == register(registrations, expirations, node, addresses, ttl, now)
       IN  /\ registrations' = c.rdb
           /\ expirations' = c.edb
           /\ ret' = Call("register", Some(node), addresses, ttl, None, <<>>,
                          /\ ret.op = "register"
                          /\ ret.node = Some(node)
                          /\ ret.addresses = addresses
                          /\ ret.ttl = ttl,
                          c.result, {})
    /\ calls' = calls + 1
    /\ UNCHANGED <<now, clientVars, hostVars>>

Deregister(node) ==
    /\ calls < MaxCalls
    /\ LET c == deregister(registrations, expirations, node)
       IN  /\ registrations' = c.rdb
           /\ expirations' = c.edb
           /\ ret' = Call("deregister", Some(node), <<>>, 0, None, <<>>, FALSE,
                          c.result, {})
    /\ calls' = calls + 1
    /\ UNCHANGED <<now, clientVars, hostVars>>

PollStore(max_ttl) ==
    /\ calls < MaxCalls
    /\ LET c == poll(registrations, expirations, max_ttl, now)
       IN  /\ registrations' = c.rdb
           /\ expirations' = c.edb
           /\ ret' = Call("poll", None, <<>>, max_ttl, None, <<>>, FALSE,
                          c.result, {})
    /\ calls' = calls + 1
    /\ UNCHANGED <<now, clientVars, hostVars>>

Get(node) ==
    /\ calls < MaxCalls
    /\ ret' = Call("get", Some(node), <<>>, 0, None, key(node), FALSE,
                   get(registrations, key(node)), {})
    /\ calls' = calls + 1
    /\ UNCHANGED <<registrations, expirations, now, clientVars, hostVars>>

Discover(node, grp) ==
    /\ calls < MaxCalls
    /\ ret' = Call("discover", Some(node), <<>>, 0, grp, <<>>, FALSE,
                   discover(registrations, node, grp), {})
    /\ calls' = calls + 1
    /\ UNCHANGED <<registrations, expirations, now, clientVars, hostVars>>

Groups(node) ==
    /\ calls < MaxCalls
    /\ ret' = Call("groups", Some(node), <<>>, 0, None, <<>>, FALSE, <<>>,
                   groups(registrations, node.namespace))
    /\ calls' = calls + 1
    /\ UNCHANGED <<registrations, expirations, now, clientVars, hostVars>>

\* the store under register, deregister, poll and get while time passes
Next ==
    \/ Tick
    \/ \E r \in StoreRegisters : Register(r[1], r[2], r[3])
    \/ \E node \in StoreNodes : Deregister(node)
    \/ \E t \in Ttls : PollStore(t)
    \/ \E node \in StoreNodes : Get(node)

Spec == Init /\ [][Next]_vars

\* the store under register, deregister, discover and groups at one instant
NextDiscover ==
    \/ \E node \in DiscoverNodes : Register(node, <<"a1">>, Seconds(1))
    \/ \E node \in DiscoverNodes : Deregister(node)
    \/ \E node \in DiscoverNodes, grp \in DiscoverGroups : Discover(node, grp)
    \/ \E node \in DiscoverNodes : Groups(node)

SpecDiscover == Init /\ [][NextDiscover]_vars

---------------------------------------------------------------------------
(* Properties of the registration store (specification Spec) *)

\* the expiry entries whose value is the locator key K
ExpirationsOf(K) == {e \in DOMAIN expirations : expirations[e] = K}

\* the keys either sub-database mentions
KnownKeys ==
    (DOMAIN registrations) \cup {expirations[e] : e \in DOMAIN expirations}

\* C1 (store lockstep): in every committed state, for every locator key K
\* the number of registrations stored under K equals the number of expiry
\* entries whose value is K.
C1_StoreLockstep ==
    \A K \in KnownKeys :
        Cardinality({k \in DOMAIN registrations : k = K})
            = Cardinality(ExpirationsOf(K))

\* C2 (register postcondition): right after register(node, A, ttl), get of
\* the node's key is Some(R) with R.addresses = A, R.ttl = ttl and
\* R.last_registration the instant of the call, for a new and for an
\* existing key.
C2_RegisterPostcondition ==
    ret.op = "register" =>
        LET R == get(registrations, key(ret.node[1]))
        IN  /\ R # None
            /\ R[1].addresses = ret.addresses
            /\ R[1].ttl = ret.ttl
            /\ R[1].last_registration = ret.at

\* C2 witness: a register of an existing key that changed its ttl and its
\* addresses, at a later instant than the store was opened
C2_Witness ==
    /\ ret.op = "register"
    /\ ret.existed
    /\ ret.node = Some(p_namespace)
    /\ ret.ttl = Seconds(2)
    /\ ret.addresses = <<"a2", "a1">>
    /\ ret.at > Seconds(ClockStart)
    /\ ret.again = FALSE

\* C3 (idempotent register): after two successive register calls with the
\* same inputs there is exactly one registration for the key, its
\* last_registration is the second call's instant, and exactly one expiry
\* entry has the key as value: the one the second call wrote.
C3_IdempotentRegister ==
    (ret.op = "register" /\ ret.again) =>
        LET K == key(ret.node[1])
        IN  /\ K \in DOMAIN registrations
            /\ registrations[K].last_registration = ret.at
            /\ ExpirationsOf(K) = {ExpirationKey(timestamp(ret.at), K)}

\* C4 (expiry monotonicity): poll(ttl) never returns a registration R with
\* R.last_registration + ttl >= now.
C4_ExpiryMonotonicity ==
    (ret.op = "poll" /\ ret.result # None) =>
        ret.result[1].last_registration + ret.ttl < ret.at

\* C5 (expiry removes the registration): when poll returned Some(R), then
\* after the call get(R.identity.key()) is None, no Discover returns R, and
\* no expiry entry refers to R's key with R's timestamp.
C5_ExpiryRemoves ==
    (ret.op = "poll" /\ ret.result # None) =>
        LET R == ret.result[1]
            K == key(R.identity)
        IN  /\ get(registrations, K) = None
            /\ \A node \in StoreNodes, grp \in DiscoverGroups :
                   \A i \in 1..Len(discover(registrations, node, grp)) :
                       discover(registrations, node, grp)[i] # R
            /\ ExpirationKey(timestamp(R.last_registration), K)
                   \notin DOMAIN expirations

---------------------------------------------------------------------------
(* Properties of discovery and of the locator key (SpecDiscover) *)

\* the registrations a Discover call returned, as a set
Results == {ret.result[i] : i \in 1..Len(ret.result)}

\* C6 (Discover is reflexive-excluding): no registration in the result of
\* discover(requester, group) has the requester's locator key.
C6_DiscoverExcludesRequester ==
    ret.op = "discover" =>
        \A R \in Results : key(R.identity) # key(ret.node[1])

\* C6 witness: the requester is registered with mode Namespace under the
\* queried prefix, and the call returned other peers
C6_Witness ==
    /\ ret.op = "discover"
    /\ key(ret.node[1]) \in DOMAIN registrations
    /\ registrations[key(ret.node[1])].identity.discoverability = "Namespace"
    /\ StartsWith(key(ret.node[1]), DiscoverPrefix(ret.node[1], ret.group))
    /\ Results # {}

\* C7 (discoverability filter): a candidate other than the requester is in
\* the Discover result iff its key matches the query prefix and its mode is
\* Namespace, or Group with its group equal to the requester's group; a
\* Direct candidate never is.  With A(n,g,Namespace) and B(n,h,Group)
\* registered, A's Discover(None) lacks B and B's Discover(None) has A.
C7_DiscoverabilityFilter ==
    ret.op = "discover" =>
        LET node == ret.node[1]
        IN  /\ \A k \in DOMAIN registrations :
                   k # key(node) =>
                       LET id == registrations[k].identity
                       IN  (registrations[k] \in Results) <=>
                              /\ StartsWith(k, DiscoverPrefix(node, ret.group))
                              /\ \/ id.discoverability = "Namespace"
                                 \/ /\ id.discoverability = "Group"
                                    /\ group(id) = group(node)
            /\ \A R \in Results : R.identity.discoverability # "Direct"
            /\ \A R \in Results : R \in {registrations[k] :
                                              k \in DOMAIN registrations}
            /\ (ret.group = None /\ node.namespace = n_) =>
                   \A R \in Results :
                       /\ (group(node) = g_ /\ R.identity.peer_id = <<"q">>
                             /\ R.identity.namespace = n_)
                              => R.identity.discoverability # "Group"
                       /\ (group(node) = h_ /\ R.identity.peer_id = <<"r">>)
                              => R.identity.discoverability # "Group"
            /\ (ret.group = None /\ node.namespace = n_ /\ group(node) = h_)
                   => \A k \in DOMAIN registrations :
                         (/\ registrations[k].identity.peer_id = <<"p">>
                          /\ registrations[k].identity.discoverability
                                = "Namespace")
                            => registrations[k] \in Results

\* C7 witness: the requester of group "h" asks Discover(None) while peer p
\* (group "g", Namespace) and peer r (group "g", Group) are registered: p is
\* returned and r is not
C7_Witness ==
    /\ ret.op = "discover"
    /\ ret.group = None
    /\ ret.node[1].peer_id = <<"q">>
    /\ ret.node[1].namespace = n_
    /\ \E R \in Results : /\ R.identity.peer_id = <<"p">>
                           /\ R.identity.discoverability = "Namespace"
    /\ \E k \in DOMAIN registrations :
           /\ registrations[k].identity.peer_id = <<"r">>
           /\ registrations[k].identity.discoverability = "Group"
           /\ registrations[k] \notin Results

\* whether the registration is visible to the requester by its mode
Visible(node, registration) ==
    /\ key(registration.identity) # key(node)
    /\ \/ registration.identity.discoverability = "Namespace"
       \/ /\ registration.identity.discoverability = "Group"
          /\ group(registration.identity) = group(node)

\* C8 (group-restricted Discover): discover(requester, Some(g)) returns
\* exactly the visible registrations of the requester's namespace whose
\* group is g; with A(g,Namespace), B(h,Namespace), C(g,Group) registered,
\* A's Discover(Some("g")) is [C].
C8_GroupRestrictedDiscover ==
    (ret.op = "discover" /\ ret.group # None) =>
        Results = {registrations[k] : k \in
                     {x \in DOMAIN registrations :
                        /\ Visible(ret.node[1], registrations[x])
                        /\ registrations[x].identity.namespace
                              = ret.node[1].namespace
                        /\ group(registrations[x].identity) = ret.group[1]}}

\* C9 (namespace confinement): every registration Discover returns has the
\* requester's namespace, also for namespaces and groups that contain "/".
C9_NamespaceConfinement ==
    ret.op = "discover" =>
        \A R \in Results : R.identity.namespace = ret.node[1].namespace

\* the locator string "<namespace>/<group>/<peer_id>"
LocatorString(node) ==
    node.namespace \o <<"/">> \o group(node) \o <<"/">> \o node.peer_id

\* the triple that is meant to identify a peer
Triple(node) == <<node.namespace, group(node), node.peer_id>>

\* C10, first half: every registration is stored under the string
\* "<namespace>/<group>/<peer_id>" of its identity.
C10_KeyFormat ==
    \A k \in DOMAIN registrations :
        k = LocatorString(registrations[k].identity)

\* C10, second half: identities with different (namespace, group(),
\* peer_id) never share a key, so the registration found under a node's key
\* right after its register is the node's own.
C10_KeyUnique ==
    ret.op = "register" =>
        Triple(registrations[key(ret.node[1])].identity) = Triple(ret.node[1])

\* C10 (locator key): key() is "<namespace>/<group>/<peer_id>" and is a
\* unique identity, so a register never overwrites another identity's entry.
C10_LocatorKey == C10_KeyFormat /\ C10_KeyUnique

---------------------------------------------------------------------------
(* Registrations under faults of the database: the transaction cannot be  *)
(* opened ("txn"), a read fails ("read"), an entry cannot be decoded      *)
(* ("decode"), a write fails ("write"), the commit fails ("commit")       *)

Faults == {"none", "txn", "read", "decode", "write", "commit"}

\* InterplexError::wrap(e)
Wrapped(reason) == [error |-> "Wrapped", reason |-> reason]

\* the store after a call, its IResult, and whether the fault occurred
IResult(rdb, edb, ok, value, hit) ==
    [rdb |-> rdb, edb |-> edb, ok |-> ok, value |-> value, hit |-> hit]

\* an error propagated with `?`: the transaction is dropped
Failed(rdb, edb, fault) == IResult(rdb, edb, FALSE, Wrapped(fault), TRUE)

\* a committed call that returned a value
Returned(c) == IResult(c.rdb, c.edb, TRUE, c.result, FALSE)

\* Ok(created.clone())
Stored(c) == IResult(c.rdb, c.edb, TRUE, c.result[1], FALSE)

\* Registrations::register: every step is followed by `?`
register_io(rdb, edb, node, addresses, ttl, current_time, fault) ==
    IF \/ fault \in {"txn", "read", "write", "commit"}
       \/ fault = "decode" /\ key(node) \in DOMAIN rdb
    THEN Failed(rdb, edb, fault)
    ELSE Stored(register(rdb, edb, node, addresses, ttl, current_time))

\* Registrations::deregister: it reads nothing
deregister_io(rdb, edb, node, fault) ==
    IF fault \in {"txn", "write", "commit"} THEN Failed(rdb, edb, fault)
    ELSE Returned(deregister(rdb, edb, node))

\* Registrations::poll with the expiry entry `expired` and the outcome c of
\* a poll without faults: only the opening of the transactions is followed
\* by `?`; a failed edb.first or rdb.get counts as "nothing there", the
\* results of the deletes and of the commit are dropped
PollOutcome(rdb, edb, expired, c, fault) ==
    CASE fault = "txn"  -> Failed(rdb, edb, fault)
      [] fault = "read" -> IResult(rdb, edb, TRUE, None, TRUE)
      [] fault = "decode" ->
            IF expired # None /\ expired[1][2] \in DOMAIN rdb
            THEN IResult(rdb, Delete(edb, expired[1][1]), TRUE, None, TRUE)
            ELSE Returned(c)
      [] fault = "write" ->
            IF expired # None THEN IResult(rdb, edb, TRUE, c.result, TRUE)
            ELSE Returned(c)
      [] fault = "commit" -> IResult(rdb, edb, TRUE, c.result, TRUE)
      [] OTHER -> Returned(c)

\* Registrations::poll
poll_io(rdb, edb, max_ttl, current_time, fault) ==
    PollOutcome(rdb, edb, Expired(edb, max_ttl, current_time),
                poll(rdb, edb, max_ttl, current_time), fault)

\* Registrations::discover: an entry that cannot be decoded is skipped
discover_io(rdb, edb, node, grp, fault) ==
    CASE fault \in {"txn", "read"} -> Failed(rdb, edb, fault)
      [] fault = "decode" /\ PrefixIter(rdb, DiscoverPrefix(node, grp)) # <<>> ->
            IResult(rdb, edb, TRUE, <<>>, TRUE)
      [] OTHER -> IResult(rdb, edb, TRUE, discover(rdb, node, grp), FALSE)

\* Registrations::get: a failed rdb.get counts as "not found"
get_io(rdb, edb, k, fault) ==
    CASE fault = "txn"  -> Failed(rdb, edb, fault)
      [] fault = "read" -> IResult(rdb, edb, TRUE, None, TRUE)
      [] fault = "decode" /\ k \in DOMAIN rdb -> IResult(rdb, edb, TRUE, None, TRUE)
      [] OTHER -> IResult(rdb, edb, TRUE, get(rdb, k), FALSE)

\* Registrations::groups: an entry that cannot be decoded is skipped
groups_io(rdb, edb, namespace, fault) ==
    CASE fault \in {"txn", "read"} -> Failed(rdb, edb, fault)
      [] fault = "decode" /\ PrefixIter(rdb, namespace \o <<"/">>) # <<>> ->
            IResult(rdb, edb, TRUE, {}, TRUE)
      [] OTHER -> IResult(rdb, edb, TRUE, groups(rdb, namespace), FALSE)

---------------------------------------------------------------------------
(* Wire protocol (message.rs) *)

\* RendezvousCommand: Register(addresses), Deregister, Discover(group),
\* Find(locator), Groups
Command(kind, arg) == [kind |-> kind, arg |-> arg]

\* RendezvousRequest
RendezvousRequest(source, command) == [source |-> source, command |-> command]

\* RendezvousResponse: a variant with Ok(value) or Err(error)
Ok(kind, value) == [kind |-> kind, ok |-> TRUE, value |-> value]
Err(kind, error) == [kind |-> kind, ok |-> FALSE, value |-> error]

CommandKinds == {"Register", "Deregister", "Discover", "Find", "Groups"}

---------------------------------------------------------------------------
(* Server behaviour (server.rs) *)

\* Config.max_lifetime of the server of the client specifications
max_lifetime == Seconds(90)

\* the observational event of the server
ServerEvent(kind, value) == [kind |-> kind, value |-> value]

\* the Register response of a stored registration: reg.last_registration
\* + max_lifetime
RegisterReply(reg) == reg.last_registration + max_lifetime

\* what the event of a served request shows of the store's result r
Shown(kind, r, source) ==
    CASE kind = "Deregister" -> source
      [] kind = "Discover"   -> Len(r.value)
      [] OTHER               -> r.value

\* the payload of the response to a served request
Reply(kind, r) ==
    CASE kind = "Register"   -> RegisterReply(r.value)
      [] kind = "Deregister" -> <<>>
      [] OTHER               -> r.value

\* one arm of handle_request: the event and the response of a store result
Answer(r, kind, source, served_as, failed_as) ==
    [rdb |-> r.rdb, edb |-> r.edb,
     result |-> [ok |-> r.ok, value |-> r.value, hit |-> r.hit],
     event |-> IF r.ok THEN ServerEvent(served_as, Shown(kind, r, source))
               ELSE ServerEvent(failed_as, r.value),
     response |-> IF r.ok THEN Ok(kind, Reply(kind, r)) ELSE Err(kind, r.value)]

\* server::Behavior::handle_request: the store after the request, the
\* observational event and the response
handle_request(rdb, edb, request, current_time, fault) ==
    CASE request.command.kind = "Register" ->
            Answer(register_io(rdb, edb, request.source, request.command.arg,
                               max_lifetime, current_time, fault),
                   "Register", request.source,
                   "CreatedRegistration", "RegistrationFailure")
      [] request.command.kind = "Deregister" ->
            Answer(deregister_io(rdb, edb, request.source, fault),
                   "Deregister", request.source,
                   "RemovedRegistration", "DeregistrationFailure")
      [] request.command.kind = "Discover" ->
            Answer(discover_io(rdb, edb, request.source, request.command.arg,
                               fault),
                   "Discover", request.source,
                   "ServedDiscovery", "FailedDiscovery")
      [] request.command.kind = "Find" ->
            Answer(get_io(rdb, edb, request.command.arg, fault),
                   "Find", request.source, "ServedFind", "FailedFind")
      [] request.command.kind = "Groups" ->
            Answer(groups_io(rdb, edb, request.source.namespace, fault),
                   "Groups", request.source, "ServedGroups", "FailedGroups")

---------------------------------------------------------------------------
(* Client behaviour (client.rs): data *)

\* REGISTRATION_BUFFER = TimeDelta::minutes(1)
REGISTRATION_BUFFER == Seconds(60)

\* Behaviour.identity: the local node
identity == p_namespace

\* the rendezvous servers the node knows (NetworkHandler.rendezvous_points);
\* the first one is the server whose store is modelled
HonestServer == <<"s">>
Servers == {HonestServer, <<"t">>}

\* the external addresses the swarm may report
ExternalAddrs == {"a1", "a2"}

\* another peer that registers at the honest server
q_namespace == NodeIdentifier(<<"q">>, n_, None, Some(g_), "m0", "Namespace")
q_direct == NodeIdentifier(<<"q">>, n_, None, Some(g_), "m0", "Direct")
OtherNodes == {q_namespace, q_direct}

\* client events
ClientEvent(kind, request, rendezvous_node, value) ==
    [kind |-> kind, request |-> request, rendezvous_node |-> rendezvous_node,
     value |-> value]

\* the events that end a request
TerminalKinds ==
    {"Registered", "RegisterFailed", "Deregistered", "DeregisterFailed",
     "Discovered", "DiscoverFailed", "Found", "NotFound", "FindFailed",
     "Groups", "GroupsFailed"}

\* the pair of terminal events of each command
EventsOf(kind) ==
    CASE kind = "Register" -> {"Registered", "RegisterFailed"}
      [] kind = "Deregister" -> {"Deregistered", "DeregisterFailed"}
      [] kind = "Discover" -> {"Discovered", "DiscoverFailed"}
      [] kind = "Find" -> {"Found", "NotFound", "FindFailed"}
      [] kind = "Groups" -> {"Groups", "GroupsFailed"}

\* the *Failed event of a command (event_for_outbound_failure's match)
FailedEvent(kind) ==
    CASE kind = "Register" -> "RegisterFailed"
      [] kind = "Deregister" -> "DeregisterFailed"
      [] kind = "Discover" -> "DiscoverFailed"
      [] kind = "Find" -> "FindFailed"
      [] kind = "Groups" -> "GroupsFailed"

\* InterplexError::RequestDispatch{peer, namespace = "rendezvous", command}
RequestDispatch(target, command) ==
    [error |-> "RequestDispatch", peer |-> target, namespace |-> "rendezvous",
     command |-> command]

\* a timer future of expiring_peers / expiring_registrations: it yields
\* (target, key) once the clock reaches `at`; its delay is computed when it
\* is first polled
Timer(target, token, at) ==
    [target |-> target, key |-> token, at |-> at, started |-> FALSE]

\* the maps of the client, as the step record keeps them
ClientMaps ==
    [rendezvous_points |-> rendezvous_points, peers |-> peers,
     processing_requests |-> processing_requests,
     expiring_peers |-> expiring_peers,
     expiring_registrations |-> expiring_registrations,
     external_addresses |-> external_addresses]

Step(op, target, sent, event, fired, error, changed) ==
    [op |-> op, target |-> target, before |-> ClientMaps, sent |-> sent,
     event |-> event, fired |-> fired, polled |-> None, error |-> error,
     changed |-> changed]

\* the entry of terminal for an emitted event
Count(event) ==
    IF event # None /\ event[1].kind \in TerminalKinds
    THEN Put(terminal, event[1].request,
             IF event[1].request \in DOMAIN terminal
             THEN terminal[event[1].request] + 1 ELSE 1)
    ELSE terminal

---------------------------------------------------------------------------
(* Client behaviour (client.rs): operations *)

\* number of requests the client sends in one behaviour
MaxRequests == 3
\* number of steps of the clock of the client specifications
MaxAdvances == 3
\* number of registrations of other peers at the honest server
MaxPeerRegisters == 2

\* one step of the clock of the client specifications
AdvanceStep == Seconds(30)

\* the requests that one call sends to the targets, with fresh request ids
Requests(targets, command) ==
    [i \in 1..Len(targets) |->
        [id |-> next_request + i - 1, target |-> targets[i],
         command |-> command]]

\* Behaviour::send_request for each request of reqs: the request is handed
\* to the transport and tracked in processing_requests
send_request(reqs) ==
    LET ids == {reqs[i].id : i \in DOMAIN reqs}
        of(id) == reqs[CHOOSE i \in DOMAIN reqs : reqs[i].id = id]
    IN  /\ next_request + Len(reqs) - 1 <= MaxRequests
        /\ processing_requests' =
              [id \in DOMAIN processing_requests \cup ids |->
                 IF id \in ids
                 THEN [target |-> of(id).target, command |-> of(id).command]
                 ELSE processing_requests[id]]
        /\ wire' =
              [id \in DOMAIN wire \cup ids |->
                 IF id \in ids
                 THEN [target |-> of(id).target,
                       request |-> RendezvousRequest(identity, of(id).command)]
                 ELSE wire[id]]
        /\ next_request' = next_request + Len(reqs)

\* the parts of the client that handle_response leaves behind
Handled(requests, points, cache, ptimers, rtimers, token, event) ==
    [processing_requests |-> requests, rendezvous_points |-> points,
     peers |-> cache, expiring_peers |-> ptimers,
     expiring_registrations |-> rtimers, next_token |-> token,
     event |-> event]

\* handle_response, Discover(Ok(regs)): every registration is cached under
\* its peer id with a fresh key, a later one replacing an earlier one
CachePeers(target, regs) ==
    LET ids == {regs[i].identity.peer_id : i \in DOMAIN regs}
        last(pid) == CHOOSE i \in DOMAIN regs :
                        /\ regs[i].identity.peer_id = pid
                        /\ \A j \in DOMAIN regs :
                              regs[j].identity.peer_id = pid => j <= i
    IN  [pid \in DOMAIN peers \cup ids |->
            IF pid \in ids
            THEN [rendezvous_node |-> target, registration |-> regs[last(pid)],
                  key |-> next_token + last(pid) - 1]
            ELSE peers[pid]]

\* a handle_response that arms no timer for the peers it caches
NoPeerTimers(regs) == {}

\* handle_response, Discover(Ok(regs)): one expiry timer per registration
PeerTimers(regs) ==
    {Timer(regs[i].identity.peer_id, next_token + i - 1, expiration(regs[i])) :
        i \in DOMAIN regs}

\* Behaviour::handle_response
handle_response(req_id, response) ==
    IF req_id \notin DOMAIN processing_requests
    THEN Handled(processing_requests, rendezvous_points, peers, expiring_peers,
                 expiring_registrations, next_token, None)
    ELSE
    LET target    == processing_requests[req_id].target
        command   == processing_requests[req_id].command
        remaining == Delete(processing_requests, req_id)
        Same(event) ==
            Handled(remaining, rendezvous_points, peers, expiring_peers,
                    expiring_registrations, next_token, Some(event))
    IN  CASE response.kind = "Register" /\ response.ok ->
                Handled(remaining,
                    Put(rendezvous_points, target,
                        [lifetime |-> response.value, key |-> next_token]),
                    peers, expiring_peers,
                    expiring_registrations \cup
                        {Timer(target, next_token,
                               response.value - REGISTRATION_BUFFER)},
                    next_token + 1,
                    Some(ClientEvent("Registered", req_id, target,
                                     response.value)))
          [] response.kind = "Register" /\ ~response.ok ->
                Same(ClientEvent("RegisterFailed", req_id, target,
                                 response.value))
          [] response.kind = "Deregister" /\ response.ok ->
                Handled(remaining, Delete(rendezvous_points, target), peers,
                    expiring_peers, expiring_registrations, next_token,
                    Some(ClientEvent("Deregistered", req_id, target, <<>>)))
          [] response.kind = "Deregister" /\ ~response.ok ->
                Same(ClientEvent("DeregisterFailed", req_id, target,
                                 response.value))
          [] response.kind = "Discover" /\ response.ok ->
                Handled(remaining, rendezvous_points,
                    CachePeers(target, response.value),
                    expiring_peers \cup PeerTimers(response.value),
                    expiring_registrations,
                    next_token + Len(response.value),
                    Some(ClientEvent("Discovered", req_id, target,
                                     response.value)))
          [] response.kind = "Discover" /\ ~response.ok ->
                Same(ClientEvent("DiscoverFailed", req_id, target,
                                 response.value))
          [] response.kind = "Find" /\ response.ok
                /\ response.value # None ->
                LET registration == response.value[1]
                IN  Handled(remaining, rendezvous_points,
                        CachePeers(target, <<registration>>),
                        expiring_peers \cup PeerTimers(<<registration>>),
                        expiring_registrations, next_token + 1,
                        Some(ClientEvent("Found", req_id, target,
                            [key |-> key(registration.identity),
                             peer |-> registration])))
          [] response.kind = "Find" /\ response.ok
                /\ response.value = None ->
                Same(ClientEvent("NotFound", req_id, target,
                        [key |-> IF command.kind = "Find" THEN command.arg
                                 ELSE <<>>]))
          [] response.kind = "Find" /\ ~response.ok ->
                Same(ClientEvent("FindFailed", req_id, target, response.value))
          [] response.kind = "Groups" /\ response.ok ->
                Same(ClientEvent("Groups", req_id, target, response.value))
          [] response.kind = "Groups" /\ ~response.ok ->
                Same(ClientEvent("GroupsFailed", req_id, target,
                                 response.value))

\* mutant: an outbound failure that leaves the request tracked
FailureKeepsRequest(req_id) ==
    IF req_id \notin DOMAIN processing_requests
    THEN Handled(processing_requests, rendezvous_points, peers, expiring_peers,
                 expiring_registrations, next_token, None)
    ELSE LET target  == processing_requests[req_id].target
             command == processing_requests[req_id].command
         IN  Handled(processing_requests, rendezvous_points,
                 peers, expiring_peers, expiring_registrations, next_token,
                 Some(ClientEvent(FailedEvent(command.kind), req_id, target,
                                  RequestDispatch(target, command))))

\* Behaviour::event_for_outbound_failure
event_for_outbound_failure(req_id) ==
    IF req_id \notin DOMAIN processing_requests
    THEN Handled(processing_requests, rendezvous_points, peers, expiring_peers,
                 expiring_registrations, next_token, None)
    ELSE LET target  == processing_requests[req_id].target
             command == processing_requests[req_id].command
         IN  Handled(Delete(processing_requests, req_id), rendezvous_points,
                 peers, expiring_peers, expiring_registrations, next_token,
                 Some(ClientEvent(FailedEvent(command.kind), req_id, target,
                                  RequestDispatch(target, command))))

---------------------------------------------------------------------------
(* Client behaviour (client.rs): actions *)

\* mutant: every swarm event counts as a change of the addresses
AddressesAlwaysChanged(list, event) ==
    LET others == SelectSeq(list, LAMBDA x : x # event.addr)
    IN  CASE event.kind = "ExternalAddrConfirmed" ->
                [addresses |-> <<event.addr>> \o others, changed |-> TRUE]
          [] event.kind = "ExternalAddrExpired" ->
                [addresses |-> others, changed |-> TRUE]
          [] OTHER -> [addresses |-> list, changed |-> TRUE]

\* libp2p ExternalAddresses::on_swarm_event: the list after the event and
\* whether the set of addresses changed
AddressesOnSwarmEvent(list, event) ==
    LET others == SelectSeq(list, LAMBDA x : x # event.addr)
        known  == \E i \in DOMAIN list : list[i] = event.addr
    IN  CASE event.kind = "ExternalAddrConfirmed" ->
                [addresses |-> <<event.addr>> \o others, changed |-> ~known]
          [] event.kind = "ExternalAddrExpired" ->
                [addresses |-> others, changed |-> known]
          [] OTHER -> [addresses |-> list, changed |-> FALSE]

\* the events the swarm reports to the behaviour
SwarmEvents ==
    [kind : {"ExternalAddrConfirmed", "ExternalAddrExpired"},
     addr : ExternalAddrs]
        \cup {[kind |-> "NewListenAddr", addr |-> "a1"]}

\* no request is outstanding
Idle == processing_requests = EmptyDb

\* what a client call leaves alone besides the parts it names
ClientIdle ==
    /\ UNCHANGED <<storeVars, hostVars>>
    /\ UNCHANGED <<inbox, crashed>>

\* mutant: register without the check of the external addresses
RegisterUnchecked(op, target) ==
    /\ ~crashed
    /\ LET reqs == Requests(<<target>>,
                            Command("Register", external_addresses))
       IN  /\ send_request(reqs)
           /\ step' = Step(op, Some(target), reqs, None, {}, None, FALSE)
    /\ ClientIdle
    /\ UNCHANGED <<external_addresses, rendezvous_points, peers,
                   expiring_peers, expiring_registrations, next_token,
                   terminal>>

\* Behaviour::register
ClientRegister(op, target) ==
    /\ ~crashed
    /\ IF Len(external_addresses) > 0
       THEN LET reqs == Requests(<<target>>,
                                 Command("Register", external_addresses))
            IN  /\ send_request(reqs)
                /\ step' = Step(op, Some(target), reqs, None, {}, None, FALSE)
       ELSE /\ step' = Step(op, Some(target), <<>>, None, {},
                            Some("NodeInaccessible"), FALSE)
            /\ UNCHANGED <<processing_requests, wire, next_request>>
    /\ ClientIdle
    /\ UNCHANGED <<external_addresses, rendezvous_points, peers,
                   expiring_peers, expiring_registrations, next_token,
                   terminal>>

\* NetworkHandler::handle_swarm_event, ConnectionEstablished: the facade
\* registers at a configured rendezvous server when it connects to it
ConnectionEstablished(target) ==
    /\ connected' = connected \cup {target}
    /\ ClientRegister("connection_established", target)

\* Behaviour::deregister
ClientDeregister(target) ==
    /\ ~crashed
    /\ LET reqs == Requests(<<target>>, Command("Deregister", <<>>))
       IN  /\ send_request(reqs)
           /\ step' = Step("deregister", Some(target), reqs, None, {}, None,
                           FALSE)
    /\ rendezvous_points' = Delete(rendezvous_points, target)
    /\ ClientIdle
    /\ UNCHANGED <<external_addresses, peers, expiring_peers,
                   expiring_registrations, next_token, terminal, connected>>

\* a call that only sends one request: discover, find, groups
ClientSend(op, target, command) ==
    /\ ~crashed
    /\ LET reqs == Requests(<<target>>, command)
       IN  /\ send_request(reqs)
           /\ step' = Step(op, Some(target), reqs, None, {}, None, FALSE)
    /\ ClientIdle
    /\ UNCHANGED <<external_addresses, rendezvous_points, peers,
                   expiring_peers, expiring_registrations, next_token,
                   terminal, connected>>

\* Behaviour::discover
ClientDiscover(target, grp) ==
    ClientSend("discover", target, Command("Discover", grp))

\* Behaviour::find: format!("{}/{}/{}", namespace, group, peer_id)
resolved(namespace, grp, peer_id) ==
    namespace \o <<"/">> \o grp \o <<"/">> \o peer_id

\* Behaviour::find
ClientFind(target, namespace, grp, peer_id) ==
    ClientSend("find", target,
               Command("Find", resolved(namespace, grp, peer_id)))

\* Behaviour::groups
ClientGroups(target) ==
    ClientSend("groups", target, Command("Groups", <<>>))

\* Behaviour::on_swarm_event
OnSwarmEvent(event) ==
    LET after == AddressesOnSwarmEvent(external_addresses, event)
        reqs  == IF after.changed /\ Len(after.addresses) > 0
                 THEN Requests(SortedKeys(DOMAIN rendezvous_points),
                               Command("Register", after.addresses))
                 ELSE <<>>
    IN  /\ ~crashed
        /\ external_addresses' = after.addresses
        /\ send_request(reqs)
        /\ step' = Step("on_swarm_event", None, reqs, None, {}, None,
                        after.changed)
        /\ ClientIdle
        /\ UNCHANGED <<rendezvous_points, peers, expiring_peers,
                       expiring_registrations, next_token, terminal,
                       connected>>

---------------------------------------------------------------------------
(* Client behaviour (client.rs): poll *)

\* mutant: an expired peer timer is taken for current whatever its key
PeerKeyIgnored(current_key, timer_key) == TRUE

\* mutant: an expired registration timer is taken for current whatever its key
RegistrationKeyIgnored(current_key, timer_key) == TRUE

\* the key comparison of an expired peer timer (current_key == &key)
PeerKeyIsCurrent(current_key, timer_key) == current_key = timer_key

\* the key comparison of an expired registration timer
RegistrationKeyIsCurrent(current_key, timer_key) == current_key = timer_key

\* a timer that is first polled after its instant: to_std() fails on the
\* negative duration and expect() panics
Late(timers) == {t \in timers : ~t.started /\ t.at < now}

\* the timers after they have been polled
Polled(timers) == {[t EXCEPT !.started = TRUE] : t \in timers}

\* what poll_next_unpin may return: a timer whose instant has come, if any
Ready(timers) ==
    LET due == {t \in Polled(timers) : t.at <= now}
    IN  IF due = {} THEN {None} ELSE {Some(t) : t \in due}

\* the timers left after poll_next_unpin returned fired
Left(timers, fired) ==
    Polled(timers) \ (IF fired = None THEN {} ELSE {fired[1]})

Fired(fp, fr) ==
    (IF fp = None THEN {} ELSE {fp[1]}) \cup (IF fr = None THEN {} ELSE {fr[1]})

\* poll panics: the task of the swarm ends
Panic ==
    /\ crashed' = TRUE
    /\ step' = Step("poll", None, <<>>, None, {}, Some("panic"), FALSE)
    /\ UNCHANGED <<external_addresses, processing_requests, rendezvous_points,
                   peers, expiring_peers, expiring_registrations, wire, inbox,
                   next_request, next_token, terminal>>

\* poll, the inner behaviour is ready with a response or a failure
PollInner ==
    LET m == Head(inbox)
        h == IF m.kind = "Response"
             THEN handle_response(m.request_id, m.response)
             ELSE event_for_outbound_failure(m.request_id)
    IN  /\ inbox' = Tail(inbox)
        /\ processing_requests' = h.processing_requests
        /\ rendezvous_points' = h.rendezvous_points
        /\ peers' = h.peers
        /\ expiring_peers' = h.expiring_peers
        /\ expiring_registrations' = h.expiring_registrations
        /\ next_token' = h.next_token
        /\ terminal' = Count(h.event)
        /\ step' = [Step("poll", None, <<>>, h.event, {}, None, FALSE)
                        EXCEPT !.polled = Some(m)]
        /\ UNCHANGED <<external_addresses, wire, next_request,
                       crashed>>

\* poll, the inner behaviour is pending: the peer timers, then the
\* registration timers, then Pending
PollTimers ==
    IF Late(expiring_peers) # {} THEN Panic
    ELSE \E fp \in Ready(expiring_peers) :
        IF /\ fp # None
           /\ fp[1].target \in DOMAIN peers
           /\ PeerKeyIsCurrent(peers[fp[1].target].key, fp[1].key)
        THEN /\ peers' = Delete(peers, fp[1].target)
             /\ expiring_peers' = Left(expiring_peers, fp)
             /\ step' = Step("poll", None, <<>>,
                    Some(ClientEvent("PeerExpired", 0,
                            peers[fp[1].target].rendezvous_node,
                            peers[fp[1].target].registration)),
                    Fired(fp, None), None, FALSE)
             /\ UNCHANGED <<external_addresses, processing_requests,
                            rendezvous_points, expiring_registrations, wire,
                            inbox, next_request, next_token,
                            crashed, terminal>>
        ELSE IF Late(expiring_registrations) # {} THEN Panic
        ELSE \E fr \in Ready(expiring_registrations) :
            /\ expiring_peers' = Left(expiring_peers, fp)
            /\ expiring_registrations' = Left(expiring_registrations, fr)
            /\ IF /\ fr # None
                  /\ fr[1].target \in DOMAIN rendezvous_points
                  /\ RegistrationKeyIsCurrent(
                         rendezvous_points[fr[1].target].key, fr[1].key)
               THEN /\ rendezvous_points' =
                          Delete(rendezvous_points, fr[1].target)
                    /\ step' = Step("poll", None, <<>>,
                           Some(ClientEvent("RegistrationExpired", 0,
                                            fr[1].target, <<>>)),
                           Fired(fp, fr), None, FALSE)
               ELSE /\ UNCHANGED rendezvous_points
                    /\ step' = Step("poll", None, <<>>, None, Fired(fp, fr),
                                    None, FALSE)
            /\ UNCHANGED <<external_addresses, processing_requests, peers,
                           wire, inbox, next_request, next_token,
                           crashed, terminal>>

\* the events of the inner layer about inbound traffic
InboundKinds == {"Request", "InboundFailure", "ResponseSent"}

\* poll, the inner behaviour is ready with an event about inbound traffic:
\* unreachable!("rendezvous clients never receive requests")
PollInbound ==
    /\ inbox' = Tail(inbox)
    /\ crashed' = TRUE
    /\ step' = [Step("poll", None, <<>>, None, {}, Some("panic"), FALSE)
                    EXCEPT !.polled = Some(Head(inbox))]
    /\ UNCHANGED <<external_addresses, processing_requests, rendezvous_points,
                   peers, expiring_peers, expiring_registrations, wire,
                   next_request, next_token, terminal>>

\* Behaviour::poll
ClientPoll ==
    /\ ~crashed
    /\ IF inbox = <<>> THEN PollTimers
       ELSE IF Head(inbox).kind \in InboundKinds THEN PollInbound
       ELSE PollInner
    /\ UNCHANGED <<storeVars, hostVars, connected>>

---------------------------------------------------------------------------
(* Transport, servers and clock of the client specifications *)

\* what the transport and the servers leave alone
ClientUntouched ==
    UNCHANGED <<external_addresses, processing_requests, rendezvous_points,
                peers, expiring_peers, expiring_registrations, connected,
                next_request, next_token, crashed, terminal, step>>

\* the inner behaviour's event for a response to request id; store is the
\* registrations of the server when it answered
Delivered(id, response, store) ==
    [kind |-> "Response", request_id |-> id, response |-> response,
     store |-> store]

\* the honest server handles a request (server poll: handle_request, then
\* send_response)
ServerHandle(id) ==
    /\ id \in DOMAIN wire
    /\ wire[id].target = HonestServer
    /\ LET h == handle_request(registrations, expirations, wire[id].request,
                               now, "none")
       IN  /\ registrations' = h.rdb
           /\ expirations' = h.edb
           /\ inbox' = Append(inbox, Delivered(id, h.response, registrations))
    /\ wire' = Delete(wire, id)
    /\ UNCHANGED <<now, calls, ret, hostVars>>
    /\ ClientUntouched

\* the request fails on the way (timeout, dial failure, closed connection)
OutboundFailure(id) ==
    /\ id \in DOMAIN wire
    /\ inbox' = Append(inbox, [kind |-> "OutboundFailure", request_id |-> id,
                               response |-> <<>>, store |-> EmptyDb])
    /\ wire' = Delete(wire, id)
    /\ UNCHANGED <<storeVars, hostVars>>
    /\ ClientUntouched

\* the kinds of response a remote peer sends, whatever the request was
RemoteKinds == {"Register", "Deregister"}

\* a well-formed response of a kind, successful or not
RemoteReply(kind, ok) ==
    IF ~ok THEN Err(kind, "e")
    ELSE IF kind = "Register" THEN Ok(kind, now + max_lifetime)
    ELSE Ok(kind, <<>>)

\* a remote peer answers a request with a well-formed response
RemoteResponse(id, response) ==
    /\ id \in DOMAIN wire
    /\ inbox' = Append(inbox, Delivered(id, response, EmptyDb))
    /\ wire' = Delete(wire, id)
    /\ UNCHANGED <<storeVars, hostVars>>
    /\ ClientUntouched

\* time passes
Advance ==
    /\ now < Seconds(ClockStart) + MaxAdvances * AdvanceStep
    /\ now' = now + AdvanceStep
    /\ UNCHANGED <<registrations, expirations, calls, ret, clientVars, hostVars>>

\* another peer registers at the honest server for the server's lifetime
PeerRegister(node) ==
    /\ calls < MaxPeerRegisters
    /\ Register(node, <<"a1">>, max_lifetime)

\* the registration life cycle of the client: the facade and the swarm call
\* it when no request is outstanding, remote peers answer, time passes
NextClient ==
    \/ Idle /\ \E target \in Servers : ConnectionEstablished(target)
    \/ Idle /\ \E target \in connected : ClientDeregister(target)
    \/ Idle /\ \E event \in SwarmEvents : OnSwarmEvent(event)
    \/ ClientPoll
    \/ \E id \in 1..MaxRequests : OutboundFailure(id)
    \/ \E id \in 1..MaxRequests, kind \in RemoteKinds, ok \in BOOLEAN :
          RemoteResponse(id, RemoteReply(kind, ok))
    \/ Idle /\ Advance

SpecClient == Init /\ [][NextClient]_vars

\* the lookups of the client at the honest server, where other peers
\* register
NextLookup ==
    \/ Idle /\ \E grp \in {None, Some(g_)} : ClientDiscover(HonestServer, grp)
    \/ Idle /\ \E node \in OtherNodes :
          ClientFind(HonestServer, node.namespace, group(node), node.peer_id)
    \/ Idle /\ ClientGroups(HonestServer)
    \/ ClientPoll
    \/ \E id \in 1..MaxRequests : ServerHandle(id)
    \/ \E id \in 1..MaxRequests : OutboundFailure(id)
    \/ Idle /\ Advance
    \/ \E node \in OtherNodes : PeerRegister(node)

SpecLookup == Init /\ [][NextLookup]_vars

\* number of requests of the specification of concurrent requests
MaxConcurrent == 2

\* a further request may be made
More == next_request <= MaxConcurrent

\* concurrent requests at one instant: register, deregister and discover are
\* called while other requests are outstanding and remote peers answer in
\* any order
NextRequests ==
    \/ OnSwarmEvent([kind |-> "ExternalAddrConfirmed", addr |-> "a1"])
    \/ More /\ ConnectionEstablished(HonestServer)
    \/ More /\ ClientDeregister(HonestServer)
    \/ More /\ ClientDiscover(HonestServer, None)
    \/ ClientPoll
    \/ \E id \in 1..MaxRequests : OutboundFailure(id)
    \/ \E id \in 1..MaxRequests, kind \in RemoteKinds, ok \in BOOLEAN :
          RemoteResponse(id, RemoteReply(kind, ok))

SpecRequests == Init /\ [][NextRequests]_vars

---------------------------------------------------------------------------
(* Properties of the client's lookups (specification SpecLookup) *)

\* the last step is a poll that returned an event of one of the kinds
Emitted(kinds) ==
    /\ step.op = "poll"
    /\ step.event # None
    /\ step.event[1].kind \in kinds

\* the command of the request that the last step's event ends
EndedCommand == step.before.processing_requests[step.event[1].request].command

\* C11: a find for the namespace, group and peer id of a node N ends with
\* Found{key = N.key(), peer = N's registration} when N is registered at the
\* server that answered, whatever N's discoverability, and with NotFound
\* carrying the requested key when nothing is registered for N
C11_FindRoundTrip ==
    \A N \in OtherNodes :
        ( /\ Emitted({"Found", "NotFound", "FindFailed"})
          /\ step.polled[1].kind = "Response"
          /\ EndedCommand =
                Command("Find", resolved(N.namespace, group(N), N.peer_id)) )
        => LET store == step.polled[1].store
               ev    == step.event[1]
           IN  IF key(N) \in DOMAIN store
               THEN /\ ev.kind = "Found"
                    /\ ev.value = [key |-> key(N), peer |-> store[key(N)]]
               ELSE /\ ev.kind = "NotFound"
                    /\ ev.value.key =
                          resolved(N.namespace, group(N), N.peer_id)

\* the peer timers that completed in the last step
FiredPeerTimers == step.fired \cap Polled(step.before.expiring_peers)

\* a completed peer timer whose key is no longer the one of the cache entry
StalePeerTimer(t) ==
    /\ t.target \in DOMAIN step.before.peers
    /\ step.before.peers[t.target].key # t.key

\* C12: a peer timer that completes after its cache entry was replaced emits
\* no PeerExpired and leaves peers[P] unchanged; PeerExpired{P} is emitted
\* only by the timer whose key is the one stored in peers[P]
C12_PeerTokenSafety ==
    step.op = "poll" =>
        /\ \A t \in FiredPeerTimers :
              StalePeerTimer(t) =>
                  /\ ~Emitted({"PeerExpired"})
                  /\ t.target \in DOMAIN peers
                  /\ peers[t.target] = step.before.peers[t.target]
        /\ Emitted({"PeerExpired"}) =>
              LET P == step.event[1].value.identity.peer_id
              IN  /\ P \in DOMAIN step.before.peers
                  /\ P \notin DOMAIN peers
                  /\ \E t \in FiredPeerTimers :
                        /\ t.target = P
                        /\ t.key = step.before.peers[P].key

\* the timer of a replaced cache entry completes
C12_Witness ==
    /\ step.op = "poll"
    /\ \E t \in FiredPeerTimers : StalePeerTimer(t)

---------------------------------------------------------------------------
(* Properties of the client's requests (specification SpecRequests) *)

\* the request ids that send_request has created
Created == 1..(next_request - 1)

\* the transport has not yet delivered the outcome of the request to poll
Outstanding(id) ==
    \/ id \in DOMAIN wire
    \/ \E i \in DOMAIN inbox : inbox[i].request_id = id

\* the number of terminal events emitted with the request id
TerminalEvents(id) == IF id \in DOMAIN terminal THEN terminal[id] ELSE 0

\* C13: every request created by send_request gets exactly one terminal
\* event with its id, none before the transport has delivered an outcome,
\* one after it, never two; after the event processing_requests has no
\* entry for the id
C13_OneTerminalEvent ==
    /\ DOMAIN terminal \subseteq Created
    /\ \A id \in Created :
          /\ TerminalEvents(id) <= 1
          /\ Outstanding(id) =>
                /\ TerminalEvents(id) = 0
                /\ id \in DOMAIN processing_requests
          /\ ~Outstanding(id) =>
                /\ TerminalEvents(id) = 1
                /\ id \notin DOMAIN processing_requests
    /\ Emitted(TerminalKinds) =>
          step.event[1].request = step.polled[1].request_id

\* two requests were outstanding together and the outcome of the first, an
\* outbound failure, is delivered after the second was ended
C13_Witness ==
    /\ Emitted(TerminalKinds)
    /\ step.polled[1].kind = "OutboundFailure"
    /\ step.polled[1].request_id = 1
    /\ 2 \notin DOMAIN step.before.processing_requests
    /\ 2 \in DOMAIN terminal
    /\ 1 \in DOMAIN terminal

\* C14: the terminal event of a request is one of the pair of its command,
\* on the outbound-failure path and for every response variant that is
\* delivered for the id; rendezvous_points is modified only by a response to
\* a Register or Deregister command, peers only by a response to a Discover
\* or Find command
C14_EventMatchesCommand ==
    Emitted(TerminalKinds) =>
        /\ step.event[1].kind \in EventsOf(EndedCommand.kind)
        /\ rendezvous_points # step.before.rendezvous_points =>
              EndedCommand.kind \in {"Register", "Deregister"}
        /\ peers # step.before.peers =>
              EndedCommand.kind \in {"Discover", "Find"}

---------------------------------------------------------------------------
(* Properties of the registration life cycle (specification SpecClient) *)

\* the last step is a call of register
CalledRegister == step.op \in {"register", "connection_established"}

\* the last step left the tracked requests, the registrations and the timers
\* as they were
LeftUnchanged ==
    /\ processing_requests = step.before.processing_requests
    /\ rendezvous_points = step.before.rendezvous_points
    /\ expiring_peers = step.before.expiring_peers
    /\ expiring_registrations = step.before.expiring_registrations

\* C15: register without an external address returns NodeInaccessible, sends
\* no request and leaves processing_requests, rendezvous_points and the
\* timers unchanged; no Register request with an empty address list is sent
C15_RegisterNeedsAddress ==
    /\ (CalledRegister /\ step.before.external_addresses = <<>>) =>
          /\ step.error = Some("NodeInaccessible")
          /\ step.sent = <<>>
          /\ LeftUnchanged
    /\ \A id \in DOMAIN wire :
          wire[id].request.command.kind = "Register" =>
              wire[id].request.command.arg # <<>>
    /\ \A i \in DOMAIN step.sent :
          step.sent[i].command.kind = "Register" =>
              step.sent[i].command.arg # <<>>

\* register is called after the last external address has expired, while a
\* registration is held
C15_Witness ==
    /\ CalledRegister
    /\ step.error = Some("NodeInaccessible")
    /\ step.before.external_addresses = <<>>
    /\ step.before.rendezvous_points # EmptyDb

\* the Register requests that the last step sent to server S
RegistersSent(S) ==
    {i \in DOMAIN step.sent :
        /\ step.sent[i].target = S
        /\ step.sent[i].command.kind = "Register"}

\* C16: when the first external address appears, a Register request is sent
\* to every rendezvous server the node is connected to and holds no
\* registration at
C16_ColdStart ==
    ( /\ step.op = "on_swarm_event"
      /\ step.before.external_addresses = <<>>
      /\ external_addresses # <<>> )
    => \A S \in connected :
          S \notin DOMAIN step.before.rendezvous_points =>
              RegistersSent(S) # {}

\* the addresses of a list, as a set
AddressSet(list) == {list[i] : i \in DOMAIN list}

FiredRegistrationTimers ==
    step.fired \cap Polled(step.before.expiring_registrations)

\* a completed registration timer whose key is the one stored for its server
CurrentRegistrationTimer(t) ==
    /\ t.target \in DOMAIN step.before.rendezvous_points
    /\ step.before.rendezvous_points[t.target].key = t.key

\* C18: when the timer of a registration at S completes while its key is
\* the current one and the client has an external address, the client sends
\* a Register request to S
C18_RefreshOnTimer ==
    step.op = "poll" =>
        \A t \in FiredRegistrationTimers :
            (CurrentRegistrationTimer(t) /\ external_addresses # <<>>) =>
                RegistersSent(t.target) # {}

\* C19: RegistrationExpired{S} is emitted and rendezvous_points[S] removed
\* only when the completed timer's key is the one stored for S; the timer
\* of a superseded or removed registration changes no state and emits
\* nothing
C19_RegistrationTokenSafety ==
    (step.op = "poll" /\ step.polled = None) =>
        /\ Emitted({"RegistrationExpired"}) =>
              LET S == step.event[1].rendezvous_node
              IN  /\ S \in DOMAIN step.before.rendezvous_points
                  /\ \E t \in FiredRegistrationTimers :
                        t.target = S /\ CurrentRegistrationTimer(t)
        /\ rendezvous_points # step.before.rendezvous_points =>
              /\ Emitted({"RegistrationExpired"})
              /\ rendezvous_points =
                    Delete(step.before.rendezvous_points,
                           step.event[1].rendezvous_node)
        /\ \A t \in FiredRegistrationTimers :
              ~CurrentRegistrationTimer(t) =>
                  /\ step.event = None
                  /\ rendezvous_points = step.before.rendezvous_points
                  /\ peers = step.before.peers
                  /\ processing_requests = step.before.processing_requests

\* the timer of a superseded registration completes
C19_Witness ==
    /\ step.op = "poll"
    /\ \E t \in FiredRegistrationTimers :
          /\ t.target \in DOMAIN step.before.rendezvous_points
          /\ step.before.rendezvous_points[t.target].key # t.key

\* C20: rendezvous_points[S] is removed through deregistration only by a
\* Deregister success response: the call deregister(S) and a
\* DeregisterFailed event leave rendezvous_points unchanged
C20_DeregistrationTransition ==
    /\ step.op = "deregister" =>
          rendezvous_points = step.before.rendezvous_points
    /\ Emitted({"DeregisterFailed"}) =>
          rendezvous_points = step.before.rendezvous_points
    /\ Emitted({"Deregistered"}) =>
          step.event[1].rendezvous_node \notin DOMAIN rendezvous_points

---------------------------------------------------------------------------
(* Further properties of the registration store *)

\* the registrations a discover call would return now, as a set
WouldDiscover(requester, grp) ==
    LET found == discover(registrations, requester, grp)
    IN  {found[i] : i \in DOMAIN found}

\* the last call was deregister(node) and it returned Ok(())
Deregistered(node) ==
    /\ ret.op = "deregister"
    /\ ret.node = Some(node)
    /\ ret.result = None

\* C24: after deregister(node) the node's key has no registration (get is
\* None) and no discover result has the node's key; deregister returns Ok,
\* and for a node that is not registered it leaves both sub-databases
\* unchanged
C24_Deregister ==
    /\ [](\A node \in DiscoverNodes :
            ret.op = "deregister" /\ ret.node = Some(node) =>
                /\ Deregistered(node)
                /\ get(registrations, key(node)) = None
                /\ \A requester \in DiscoverNodes, grp \in DiscoverGroups :
                      \A R \in WouldDiscover(requester, grp) :
                          key(R.identity) # key(node))
    /\ [][(calls' = calls + 1 /\ ret'.op = "deregister" /\ ~ret'.existed) =>
              /\ registrations' = registrations
              /\ expirations' = expirations]_vars

\* a registered node was deregistered while another node stays registered
C24_Witness ==
    /\ ret.op = "deregister"
    /\ ret.existed
    /\ DOMAIN registrations # {}

\* the registrations that a sweep with max_ttl at instant t has to remove
Overdue(max_ttl, t) ==
    {k \in DOMAIN registrations :
        registrations[k].last_registration + max_ttl < t}

\* C29: the sweep drains: a poll returns at most one registration, and when
\* it returns none, no registration with last_registration + max_ttl < now
\* is left in the store
C29_SweepDrains ==
    ret.op = "poll" =>
        /\ Len(ret.result) <= 1
        /\ ret.result = None => Overdue(ret.ttl, ret.at) = {}

\* C30: the first entry of `expirations` in key order refers to a
\* registration whose expiration is minimal among the stored registrations
C30_ExpiryIndexOrder ==
    LET first == First(expirations)
    IN  (first # None /\ DOMAIN registrations # {}) =>
            /\ first[1][2] \in DOMAIN registrations
            /\ \A k \in DOMAIN registrations :
                  expiration(registrations[first[1][2]]) <=
                      expiration(registrations[k])

\* ---------------------------------------------------------------------
\* The facade: the addresses of the rendezvous servers
\* ---------------------------------------------------------------------

\* a component of a Multiaddr; only Protocol::P2p carries a peer id
Protocol(name) == [protocol |-> name, peer |-> <<>>]

P2p(peer) == [protocol |-> "p2p", peer |-> peer]

\* the addresses a caller hands to the facade: without a peer id, with one,
\* and a relayed address with two
Multiaddrs ==
    { <<Protocol("ip4"), Protocol("tcp")>>,
      <<Protocol("ip4"), Protocol("tcp"), P2p(<<"s">>)>>,
      <<Protocol("dns"), Protocol("tcp"), P2p(<<"s">>)>>,
      <<Protocol("ip4"), Protocol("tcp"), P2p(<<"t">>)>>,
      <<Protocol("ip4"), Protocol("tcp"), P2p(<<"s">>),
        Protocol("p2p-circuit"), P2p(<<"t">>)>> }

\* address.iter().filter_map(|p| if let Protocol::P2p(peer) = p ...)
P2pPeers(address) ==
    LET blocks == SelectSeq(address, LAMBDA p : p.protocol = "p2p")
    IN  [i \in DOMAIN blocks |-> blocks[i].peer]

\* a validation that takes every address to name the peer "s"
AnyAddress(address) == Some(<<"s">>)

\* .filter_map(..).last()
LastP2p(address) ==
    LET found == P2pPeers(address)
    IN  IF found = <<>> THEN None ELSE Some(found[Len(found)])

\* .find_map(..)
FirstP2p(address) ==
    LET found == P2pPeers(address)
    IN  IF found = <<>> THEN None ELSE Some(found[1])

\* InterplexError::Address{addr, reason}
AddressError(address) == [error |-> "Address", addr |-> address]

\* Error::IncorrectAddress{address, reason}
incorrect_address(address) == [error |-> "IncorrectAddress", addr |-> address]

\* Error::connection(..) and InterplexError::wrap(dial error)
DialError(address) == [error |-> "Connection", addr |-> address]

FacadeOk == [error |-> "none", addr |-> <<>>]

FacadeCall(op, addresses, result) ==
    [op |-> op, addresses |-> addresses, result |-> Some(result),
     nodes |-> rendezvous_nodes, points |-> network_points, dialed |-> dialed]

\* NodeBuilder::rendezvous
BuilderRendezvous(address) ==
    /\ built = "builder"
    /\ LET peer == FirstP2p(address)
       IN  IF peer # None
           THEN /\ rendezvous_nodes' = Put(rendezvous_nodes, peer[1], address)
                /\ facade' = FacadeCall("rendezvous", <<address>>, FacadeOk)
           ELSE /\ rendezvous_nodes' = rendezvous_nodes
                /\ facade' = FacadeCall("rendezvous", <<address>>,
                                        incorrect_address(address))
    /\ UNCHANGED <<network_points, dialed, built>>
    /\ UNCHANGED <<storeVars, clientVars, serverVars, handlerVars>>

\* the lists of addresses NetworkHandler::new is constructed with
MaxRendezvous == 2

AddressLists ==
    UNION {[1..n -> Multiaddrs] : n \in 0..MaxRendezvous}

\* the first loop of NetworkHandler::new over the first n addresses
RECURSIVE Validated(_, _)
Validated(addresses, n) ==
    IF n = 0 THEN EmptyDb
    ELSE Put(Validated(addresses, n - 1), LastP2p(addresses[n])[1], addresses[n])

\* the addresses without a P2p block
Rejected(addresses) ==
    {i \in DOMAIN addresses : LastP2p(addresses[i]) = None}

Min(S) == CHOOSE x \in S : \A y \in S : x <= y

\* NetworkHandler::new: every address is validated, then every address is
\* dialed; the dial of address number failing (0: none) fails
New(addresses, failing) ==
    /\ built = "builder"
    /\ failing \in 0..Len(addresses)
    /\ IF Rejected(addresses) # {}
       THEN /\ failing = 0
            /\ built' = "failed"
            /\ facade' = FacadeCall("new", addresses,
                             AddressError(addresses[Min(Rejected(addresses))]))
            /\ UNCHANGED <<network_points, dialed>>
       ELSE IF failing # 0
       THEN /\ built' = "failed"
            /\ dialed' = dialed \cup {addresses[i] : i \in 1..failing}
            /\ facade' = FacadeCall("new", addresses,
                                    DialError(addresses[failing]))
            /\ UNCHANGED network_points
       ELSE /\ built' = "running"
            /\ dialed' = dialed \cup {addresses[i] : i \in DOMAIN addresses}
            /\ network_points' = Validated(addresses, Len(addresses))
            /\ facade' = FacadeCall("new", addresses, FacadeOk)
    /\ UNCHANGED rendezvous_nodes
    /\ UNCHANGED <<storeVars, clientVars, serverVars, handlerVars>>

\* NetworkHandler::handle_command, Command::AddRendezvous
AddRendezvous(address, dial_ok) ==
    /\ built = "running"
    /\ LET peer == LastP2p(address)
       IN  IF peer = None
           THEN /\ dial_ok
                /\ facade' = FacadeCall("AddRendezvous", <<address>>,
                                        AddressError(address))
                /\ UNCHANGED <<network_points, dialed>>
           ELSE /\ dialed' = dialed \cup {address}
                /\ IF dial_ok
                   THEN /\ network_points' = Put(network_points, peer[1], address)
                        /\ facade' = FacadeCall("AddRendezvous", <<address>>,
                                                FacadeOk)
                   ELSE /\ network_points' = network_points
                        /\ facade' = FacadeCall("AddRendezvous", <<address>>,
                                                DialError(address))
    /\ UNCHANGED <<rendezvous_nodes, built>>
    /\ UNCHANGED <<storeVars, clientVars, serverVars, handlerVars>>

NextFacade ==
    \/ \E address \in Multiaddrs : BuilderRendezvous(address)
    \/ \E addresses \in AddressLists, failing \in 0..MaxRendezvous :
          New(addresses, failing)
    \/ \E address \in Multiaddrs, dial_ok \in BOOLEAN :
          AddRendezvous(address, dial_ok)

SpecFacade == Init /\ [][NextFacade]_vars

\* the addresses of the last facade call that have no /p2p/<peer_id> block
WithoutPeer ==
    {i \in DOMAIN facade.addresses : P2pPeers(facade.addresses[i]) = <<>>}

\* the map the last facade call fills
KnownPoints == IF facade.op = "rendezvous" THEN rendezvous_nodes ELSE network_points

\* the last facade call left the dialed addresses and the known points alone
NothingDone ==
    /\ dialed = facade.dialed
    /\ rendezvous_nodes = facade.nodes
    /\ network_points = facade.points

\* the address number i of the last call is kept under a peer id it
\* contains, unless a later address of the same call took that place
StoredUnderItsPeer(i) ==
    LET address == facade.addresses[i]
        found == P2pPeers(address)
    IN  \E n \in DOMAIN found :
            /\ found[n] \in DOMAIN KnownPoints
            /\ \/ KnownPoints[found[n]] = address
               \/ \E j \in DOMAIN facade.addresses :
                     j > i /\ KnownPoints[found[n]] = facade.addresses[j]

\* C25: a rendezvous address without a /p2p/<peer_id> block is rejected with
\* an address error by NodeBuilder::rendezvous, NetworkHandler::new and
\* AddRendezvous, nothing is dialed and the known rendezvous points are
\* unchanged; an accepted address is stored under a peer id it contains
C25_AddressValidation ==
    facade.op # "none" =>
        /\ WithoutPeer # {} =>
              /\ facade.result[1].error =
                    (IF facade.op = "rendezvous" THEN "IncorrectAddress" ELSE "Address")
              /\ P2pPeers(facade.result[1].addr) = <<>>
              /\ facade.result[1].addr \in
                    {facade.addresses[i] : i \in DOMAIN facade.addresses}
              /\ NothingDone
        /\ facade.result[1] = FacadeOk =>
              \A i \in DOMAIN facade.addresses : StoredUnderItsPeer(i)

\* a running handler that has dialed a server rejects an address, and a
\* builder that knows a server rejects one
C25_Witness ==
    /\ WithoutPeer # {}
    /\ \/ facade.op = "AddRendezvous" /\ dialed # {} /\ network_points # EmptyDb
       \/ facade.op = "rendezvous" /\ rendezvous_nodes # EmptyDb

---------------------------------------------------------------------------
(* The rendezvous server under faults of its database *)

\* the requests that reach the server: the local node sends every command,
\* another node registers
InboundRequests ==
    { RendezvousRequest(identity, command) :
        command \in { Command("Register", <<"a1">>),
                      Command("Deregister", <<>>),
                      Command("Discover", None),
                      Command("Find", key(q_namespace)),
                      Command("Groups", <<>>) } }
    \cup {RendezvousRequest(q_namespace, Command("Register", <<"a1">>))}

\* a poll that panics whenever the store returned an error
AbortsOnError(h, deliverable) == ~deliverable \/ ~h.result.ok

\* send_response(channel, resp).expect("Send response"): the poll panics
\* when the channel of the request is closed
Aborts(h, deliverable) == ~deliverable

\* what the last poll of the server did
Served(op, request, sweep_fault, fault, deliverable, swept, failures) ==
    [op |-> op, request |-> request, sweep_fault |-> sweep_fault,
     fault |-> fault, deliverable |-> deliverable,
     swept |-> [ok |-> swept.ok, value |-> swept.value, hit |-> swept.hit],
     failures |-> failures + (IF swept.ok THEN 0 ELSE 1)]

\* the events and the responses of a poll that handled the request with h
Outcome(h, sent) ==
    [result |-> h.result,
     events |-> IF sent THEN <<h.event>> ELSE <<>>,
     responses |-> IF sent THEN <<h.response>> ELSE <<>>]

\* what is left of server::Behavior::poll after the sweep returned swept
AfterSweep(swept, request, sweep_fault, fault, deliverable) ==
    IF swept.ok /\ swept.value # None
    THEN \* return Poll::Ready(ExpiredRegistration(expired))
         /\ request = None /\ fault = "none" /\ deliverable
         /\ registrations' = swept.rdb
         /\ expirations' = swept.edb
         /\ server_down' = FALSE
         /\ calls' = calls + 1
         /\ served' =
               Served("sweep", None, sweep_fault, fault, deliverable, swept,
                      served.failures) @@
               [result |-> NoResult,
                events |-> <<ServerEvent("ExpiredRegistration", swept.value[1])>>,
                responses |-> <<>>]
    ELSE IF request = None
    THEN \* the inner layer has nothing: Poll::Pending
         /\ fault = "none" /\ deliverable
         /\ registrations' = swept.rdb
         /\ expirations' = swept.edb
         /\ server_down' = FALSE
         /\ calls' = calls + 1
         /\ served' =
               Served("idle", None, sweep_fault, fault, deliverable, swept,
                      served.failures) @@
               [result |-> NoResult, events |-> <<>>, responses |-> <<>>]
    ELSE \E h \in {handle_request(swept.rdb, swept.edb, request[1], now, fault)} :
         /\ registrations' = h.rdb
         /\ expirations' = h.edb
         /\ server_down' = Aborts(h, deliverable)
         /\ calls' = calls + 2
         /\ served' =
               Served("request", request, sweep_fault, fault, deliverable,
                      swept, served.failures + (IF h.result.ok THEN 0 ELSE 1)) @@
               Outcome(h, ~Aborts(h, deliverable))

\* server::Behavior::poll: the sweep of the store, then the next inbound
\* request of the inner layer, if there is one
ServerPoll(request, sweep_fault, fault, deliverable) ==
    /\ ~server_down
    /\ calls < MaxCalls
    /\ \E swept \in {poll_io(registrations, expirations, max_lifetime, now,
                             sweep_fault)} :
          AfterSweep(swept, request, sweep_fault, fault, deliverable)
    /\ UNCHANGED <<now, ret, clientVars, facadeVars, handlerVars>>

\* more time passes than the server lets a registration live
MaxElapses == 1

ElapseStep == Seconds(120)

Elapse ==
    /\ now < Seconds(ClockStart) + MaxElapses * ElapseStep
    /\ now' = now + ElapseStep
    /\ UNCHANGED <<registrations, expirations, calls, ret, clientVars, hostVars>>

\* the server is polled with and without requests, with at most one fault
\* of its database in a poll, and time passes
NextServer ==
    \/ \E request \in {None} \cup {Some(r) : r \in InboundRequests},
          sweep_fault \in Faults, fault \in Faults, deliverable \in BOOLEAN :
          /\ sweep_fault = "none" \/ fault = "none"
          /\ ServerPoll(request, sweep_fault, fault, deliverable)
    \/ Elapse

SpecServer == Init /\ [][NextServer]_vars

\* the events that report a failed store operation
FailureEvents ==
    {"RegistrationFailure", "DeregistrationFailure", "FailedDiscovery",
     "FailedFind", "FailedGroups"}

\* the response of the last poll carries the result of the store; for
\* Register, the expiration of the registration that is now stored
CarriesResult ==
    LET response == served.responses[1]
        source   == served.request[1].source
    IN  /\ response.ok
        /\ served.events[1].kind \notin FailureEvents
        /\ IF served.request[1].command.kind = "Register"
           THEN /\ key(source) \in DOMAIN registrations
                /\ response.value = expiration(registrations[key(source)])
           ELSE response.value = served.result.value

\* C22: the server answers every request exactly once: one observational
\* event and one response; a store error appears in both, and a success
\* response carries the store's result
C22_AnsweredOnce ==
    served.op = "request" =>
        /\ Len(served.events) = 1
        /\ Len(served.responses) = 1
        /\ served.responses[1].kind = served.request[1].command.kind
        /\ IF served.result.ok
           THEN CarriesResult
           ELSE /\ ~served.responses[1].ok
                /\ served.responses[1].value = served.result.value
                /\ served.events[1].kind \in FailureEvents
                /\ served.events[1].value = served.result.value

\* C23: the server never terminates on a handler error: whatever the store
\* returned to the sweep and to the handler, the poll aborts only when the
\* response cannot be sent, and a poll that returned leaves the server
\* operational
C23_ServerSurvives ==
    server_down <=> (served.op = "request" /\ ~served.deliverable)

\* after a poll in which the store returned an error, the server has served
\* a request without a fault
C23_Witness ==
    /\ served.failures > 0
    /\ ~server_down
    /\ served.op = "request"
    /\ served.fault = "none" /\ served.sweep_fault = "none"
    /\ served.result.ok
    /\ Len(served.responses) = 1

\* C26: a store operation in which a read, a write, a commit or the
\* decoding of an entry failed returns Err(Wrapped(reason))
C26_FaultsReported ==
    /\ served.swept.hit =>
          ~served.swept.ok /\ served.swept.value = Wrapped(served.sweep_fault)
    /\ served.result.hit =>
          ~served.result.ok /\ served.result.value = Wrapped(served.fault)

---------------------------------------------------------------------------
(* The delays of the client's timers *)

\* the lifetimes remote rendezvous servers grant (their Config.max_lifetime)
Lifetimes == {Seconds(30), Seconds(90)}

\* a remote server grants a registration for lifetime
Granted(lifetime) == Ok("Register", now + lifetime)

\* the swarm polls the behaviour again right after an event: time passes
\* only when every timer has been polled once
Settled ==
    /\ ~crashed
    /\ Idle
    /\ \A t \in expiring_peers \cup expiring_registrations : t.started

\* the client registers at servers that grant short and long lifetimes
NextRefresh ==
    \/ \E event \in SwarmEvents : ~crashed /\ Idle /\ OnSwarmEvent(event)
    \/ Idle /\ \E target \in Servers : ConnectionEstablished(target)
    \/ ClientPoll
    \/ \E id \in 1..MaxRequests, lifetime \in Lifetimes :
          RemoteResponse(id, Granted(lifetime))
    \/ Settled /\ Advance

SpecRefresh == Init /\ [][NextRefresh]_vars

\* the client discovers peers whose registrations are fresh, or have
\* outlived their expiration in the store of the server
NextPeers ==
    \/ Idle /\ ClientDiscover(HonestServer, None)
    \/ ClientPoll
    \/ \E id \in 1..MaxRequests : ServerHandle(id)
    \/ \E node \in OtherNodes : PeerRegister(node)
    \/ Settled /\ Advance
    \/ Settled /\ Elapse

SpecPeers == Init /\ [][NextPeers]_vars

\* the swarm polls the behaviour again and again
FairSpecPeers == SpecPeers /\ WF_vars(ClientPoll)

\* C27: the delay of the refresh timer is clamped: a poll does not abort on
\* a refresh timer whose instant E - 1 minute has passed when the timer is
\* first polled
C27_RefreshDelayClamped ==
    ~(crashed /\ Late(expiring_peers) = {} /\ Late(expiring_registrations) # {})

\* C28: the delay of a peer timer is clamped: a poll does not abort on a
\* peer timer whose registration has expired when the timer is first polled
C28_PeerDelayClamped ==
    ~(crashed /\ Late(expiring_peers) # {})

\* the peers the client can discover
DiscoverablePeers == {node.peer_id : node \in OtherNodes}

\* the cached registration of peer P has expired
PeerIsDue(P) ==
    /\ P \in DOMAIN peers
    /\ expiration(peers[P].registration) <= now

\* C21: a discovered peer expires observably: once the expiration of its
\* cached registration has passed, the entry is removed (with PeerExpired)
\* or superseded by a later response
C21_PeersExpire ==
    \A P \in DiscoverablePeers : PeerIsDue(P) ~> ~PeerIsDue(P)

---------------------------------------------------------------------------
(* Further properties of the server and of the client *)

\* C34: the server survives an undeliverable response: the poll that
\* handled the request does not abort and still emits the observational
\* event of the request
C34_SurvivesUndeliverable ==
    (served.op = "request" /\ ~served.deliverable) =>
        /\ ~server_down
        /\ Len(served.events) = 1

\* a node whose namespace starts like an expiry key: its locator key
\* "9:n/g::p" is the expiry key of n/g::p registered in second 9
p_colon == NodeIdentifier(<<"p">>, <<"9", ":">> \o n_, None, Some(g_), "m0", "Namespace")

FrameNodes == {p_namespace, p_colon}

\* the store under every operation, with the two nodes
NextFrame ==
    \/ Tick
    \/ \E node \in FrameNodes : Register(node, <<"a1">>, Seconds(1))
    \/ \E node \in FrameNodes : Deregister(node)
    \/ PollStore(Seconds(1))
    \/ \E node \in FrameNodes : Get(node)
    \/ \E node \in FrameNodes : Discover(node, None)
    \/ \E node \in FrameNodes : Groups(node)

SpecFrame == Init /\ [][NextFrame]_vars

\* the key an expiry entry belongs to, before or after the step
OwnerOf(ek) ==
    IF ek \in DOMAIN expirations THEN expirations[ek] ELSE expirations'[ek]

\* the step changes no registration and no expiry entry of a key other
\* than K
TouchesOnly(K) ==
    /\ \A k \in (DOMAIN registrations \cup DOMAIN registrations') \ {K} :
          Lookup(registrations', k) = Lookup(registrations, k)
    /\ \A ek \in DOMAIN expirations \cup DOMAIN expirations' :
          OwnerOf(ek) # K => Lookup(expirations', ek) = Lookup(expirations, ek)

\* an update keeps the namespace, the group and the peer id it found
KeepsIdentity(K) ==
    (K \in DOMAIN registrations /\ K \in DOMAIN registrations') =>
        /\ registrations'[K].identity.namespace = registrations[K].identity.namespace
        /\ registrations'[K].identity.group = registrations[K].identity.group
        /\ registrations'[K].identity.peer_id = registrations[K].identity.peer_id

\* C35: register and deregister change nothing of a key other than
\* node.key(), a poll that returns R changes nothing of a key other than R's,
\* get, discover and groups change nothing, and an update keeps the
\* namespace, the group and the peer id of the stored identity
C35_TouchesOwnKey ==
    [][calls' = calls + 1 =>
          CASE ret'.op = "register" ->
                  /\ TouchesOnly(key(ret'.node[1]))
                  /\ KeepsIdentity(key(ret'.node[1]))
            [] ret'.op = "deregister" -> TouchesOnly(key(ret'.node[1]))
            [] ret'.op = "poll" /\ ret'.result # None ->
                  TouchesOnly(key(ret'.result[1].identity))
            [] ret'.op \in {"get", "discover", "groups"} ->
                  registrations' = registrations /\ expirations' = expirations
            [] OTHER -> TRUE]_vars

\* a remote peer opens a stream of the protocol to the client, which
\* supports it in both directions: the inner layer reports the request, or
\* the failure of the inbound stream
Inbound(kind) ==
    /\ ~crashed
    /\ \A i \in DOMAIN inbox : inbox[i].kind \notin InboundKinds
    /\ inbox' = Append(inbox, [kind |-> kind, request_id |-> 0,
                               response |-> <<>>, store |-> EmptyDb])
    /\ UNCHANGED <<storeVars, hostVars, wire>>
    /\ ClientUntouched

\* the client registers and discovers while remote peers send it requests
NextInbound ==
    \/ OnSwarmEvent([kind |-> "ExternalAddrConfirmed", addr |-> "a1"])
    \/ More /\ ConnectionEstablished(HonestServer)
    \/ More /\ ClientDiscover(HonestServer, None)
    \/ ClientPoll
    \/ \E id \in 1..MaxRequests, kind \in RemoteKinds, ok \in BOOLEAN :
          RemoteResponse(id, RemoteReply(kind, ok))
    \/ \E kind \in {"Request", "InboundFailure"} : Inbound(kind)

SpecInbound == Init /\ [][NextInbound]_vars

\* C33: the client survives inbound traffic: a poll that takes an inbound
\* request, InboundFailure or ResponseSent from the inner layer does not
\* abort and leaves processing_requests, peers and rendezvous_points alone
C33_SurvivesInbound ==
    (step.op = "poll" /\ step.polled # None
        /\ step.polled[1].kind \in InboundKinds) =>
        /\ ~crashed
        /\ step.error = None
        /\ processing_requests = step.before.processing_requests
        /\ peers = step.before.peers
        /\ rendezvous_points = step.before.rendezvous_points

\* the client registers at the server, deregisters, and discovers peers
\* that register again and again, while time passes
NextCache ==
    \/ Idle /\ OnSwarmEvent([kind |-> "ExternalAddrConfirmed", addr |-> "a1"])
    \/ Idle /\ ConnectionEstablished(HonestServer)
    \/ Idle /\ ClientDeregister(HonestServer)
    \/ Idle /\ ClientDiscover(HonestServer, None)
    \/ ClientPoll
    \/ \E id \in 1..MaxRequests : ServerHandle(id)
    \/ PeerRegister(q_namespace)
    \/ Settled /\ Advance

SpecCache == Init /\ [][NextCache]_vars

\* the timers of a collection that carry the entry's key and token
TimersOf(timers, target, token) ==
    {t \in timers : t.target = target /\ t.key = token}

\* C31: every entry of peers and of rendezvous_points has one pending timer
\* that carries the entry's key and its current token, and the tokens of
\* distinct insertions are distinct
C31_LiveTimers ==
    /\ \A P \in DOMAIN peers :
          Cardinality(TimersOf(expiring_peers, P, peers[P].key)) = 1
    /\ \A S \in DOMAIN rendezvous_points :
          Cardinality(TimersOf(expiring_registrations, S,
                               rendezvous_points[S].key)) = 1
    /\ \A t1, t2 \in expiring_peers \cup expiring_registrations :
          t1.key = t2.key => t1 = t2
    /\ \A t \in expiring_peers \cup expiring_registrations : t.key < next_token

\* a peer and a registration are cached, and the timer of a superseded
\* insertion of the peer is still pending
C31_Witness ==
    /\ rendezvous_points # EmptyDb
    /\ \E P \in DOMAIN peers :
          \E t \in expiring_peers : t.target = P /\ t.key # peers[P].key

\* after the step: the timers that have completed, were not taken, and
\* carry the current token of a cache entry
UnservedPeerTimers ==
    {t \in expiring_peers' :
        /\ t.started /\ t.at <= now'
        /\ t.target \in DOMAIN peers' /\ peers'[t.target].key = t.key}

UnservedRegistrationTimers ==
    {t \in expiring_registrations' :
        /\ t.started /\ t.at <= now'
        /\ t.target \in DOMAIN rendezvous_points'
        /\ rendezvous_points'[t.target].key = t.key}

\* the step is a poll of the client that returned Poll::Pending
ReturnedPending ==
    /\ ~crashed /\ ~crashed'
    /\ inbox = <<>>
    /\ now' = now
    /\ step'.op = "poll" /\ step'.event = None /\ step'.polled = None
    /\ \/ step' # step
       \/ expiring_peers' # expiring_peers
       \/ expiring_registrations' # expiring_registrations

\* C32: no expiry is lost: the client does not return Pending while a
\* completed timer with the current token of its cache entry is left in
\* expiring_peers or expiring_registrations
C32_NoLostExpiry ==
    [][ReturnedPending =>
          UnservedPeerTimers = {} /\ UnservedRegistrationTimers = {}]_vars

----------------------------------------------------------------------------
(* The tasks of the node facade: NetworkHandler::event_loop and the         *)
(* handlers it spawns. A step of a task runs from one .await that can       *)
(* suspend it to the next; the event loop is task 0 and the spawned task    *)
(* number t is tasks[t].                                                    *)

\* the editions the crate can be compiled under: before the 2024 edition the
\* temporaries of the scrutinee of an `if let` live to the end of its else
\* block, from the 2024 edition on they are dropped before the else block
Editions == {"2021", "2024"}

\* the number of tasks the event loop spawns
MaxSpawned == 3

\* Mutex::lock(): the task joins the queue of the mutex (the mutex is fair)
Lock(held, l, t) == [held EXCEPT ![l] = Append(@, t)]

\* the guard at the head of the queue is dropped
Unlock(held, l) == [held EXCEPT ![l] = Tail(@)]

\* the last lock() call of task t on mutex l has returned its guard
Acquired(l, t) ==
    /\ locks[l] # <<>>
    /\ Head(locks[l]) = t
    /\ \A i \in 2..Len(locks[l]) : locks[l][i] # t

\* what the event loop spawns a task with: a swarm event, a command or an
\* inbound stream; target is the rendezvous_node of an event and the peer id
\* of Command::GetPeer
Task(kind, name, target, list, id) ==
    [kind |-> kind, name |-> name, target |-> target, peers |-> list,
     id |-> id, pc |-> "spawned", index |-> 1, new_peers |-> {}]

\* the registrations a Discovered event carries
PeerLists == {<<p_namespace>>, <<q_namespace, p_namespace>>}

HandlerEvents ==
    {Task("event", "Discovered", s, l, 0) : s \in Servers, l \in PeerLists}
      \cup {Task("event", "PeerExpired", s, <<p_namespace>>, 0) : s \in Servers}
      \cup {Task("event", "Other", <<>>, <<>>, 0)}

Commands(id) ==
    {Task("command", "ListPeers", <<>>, <<>>, id),
     Task("command", "GetPeer", <<"p">>, <<>>, id)}

Streams == {Task("stream", "Stream", <<"q">>, <<>>, 0)}

\* ipc::Event and CommandResponse, by the peers they name
Sent(name, named) == [name |-> name, peers |-> named]

Answered(id, name, named) == [id |-> id, name |-> name, peers |-> named]

HandledEvent(h) ==
    [name |-> h.name, target |-> h.target,
     peers |-> {h.peers[i].peer_id : i \in DOMAIN h.peers}]

HandlersUntouched == UNCHANGED <<storeVars, clientVars, serverVars, facadeVars>>

\* NetworkHandler::start_event_loop
start_event_loop(e) ==
    /\ event_loop = "created"
    /\ event_loop' = "lock"
    /\ edition' = Some(e)
    /\ UNCHANGED <<network_peers, locks, tasks, events, responses, handled>>
    /\ HandlersUntouched

\* event_loop: `let mut swarm = self.swarm.lock().await` at the top of an
\* iteration
LoopLock ==
    /\ event_loop = "lock"
    /\ locks' = Lock(locks, "swarm", 0)
    /\ event_loop' = "select"
    /\ UNCHANGED <<network_peers, tasks, edition, events, responses, handled>>
    /\ HandlersUntouched

\* event_loop: select! yields the next swarm event, command or stream while
\* the loop holds the swarm lock; the handler is spawned and the guard is
\* dropped at the end of the iteration
LoopSelect(task) ==
    /\ event_loop = "select"
    /\ Acquired("swarm", 0)
    /\ Len(tasks) < MaxSpawned
    /\ tasks' = Append(tasks, task)
    /\ locks' = Unlock(locks, "swarm")
    /\ event_loop' = "lock"
    /\ UNCHANGED <<network_peers, edition, events, responses, handled>>
    /\ HandlersUntouched

\* event_loop: Command::ExitLoop is answered by the loop itself
LoopExit ==
    /\ event_loop = "select"
    /\ Acquired("swarm", 0)
    /\ responses' = Append(responses, Answered(0, "ExitLoop", {}))
    /\ locks' = Unlock(locks, "swarm")
    /\ event_loop' = "done"
    /\ UNCHANGED <<network_peers, tasks, edition, events, handled>>
    /\ HandlersUntouched

\* the first lock() of a spawned task: the swarm for handle_swarm_event and
\* handle_command, the streams for the task of an inbound stream
HandlerStart(t) ==
    /\ tasks[t].pc = "spawned"
    /\ locks' = Lock(locks, IF tasks[t].kind = "stream" THEN "streams"
                            ELSE "swarm", t)
    /\ tasks' = [tasks EXCEPT ![t].pc = "locking"]
    /\ UNCHANGED <<network_peers, event_loop, edition, events, responses, handled>>
    /\ HandlersUntouched

\* the task of an inbound stream: the stream is stored and StreamOpened sent
StreamTask(t) ==
    /\ tasks[t].kind = "stream" /\ tasks[t].pc = "locking"
    /\ Acquired("streams", t)
    /\ events' = Append(events, Sent("StreamOpened", {tasks[t].target}))
    /\ locks' = Unlock(locks, "streams")
    /\ tasks' = [tasks EXCEPT ![t].pc = "done"]
    /\ UNCHANGED <<network_peers, event_loop, edition, responses, handled>>
    /\ HandlersUntouched

\* handle_swarm_event with the swarm lock: the arm of the event
EventArm(t) ==
    /\ tasks[t].kind = "event" /\ tasks[t].pc = "locking"
    /\ Acquired("swarm", t)
    /\ IF tasks[t].name = "Other"
       THEN /\ locks' = Unlock(locks, "swarm")
            /\ tasks' = [tasks EXCEPT ![t].pc = "done"]
       ELSE /\ locks' = Lock(locks, "peers", t)
            /\ tasks' = [tasks EXCEPT ![t].pc =
                            IF tasks[t].name = "Discovered" THEN "lookup"
                            ELSE "expire"]
    /\ UNCHANGED <<network_peers, event_loop, edition, events, responses, handled>>
    /\ HandlersUntouched

\* handle_swarm_event, Discovered: the end of one iteration of `for peer in
\* peers` with the mutexes as in held and the new peers found; after the
\* last peer DiscoveredPeers is sent and the swarm guard dropped
NextPeer(t, held, found) ==
    IF tasks[t].index < Len(tasks[t].peers)
    THEN /\ locks' = Lock(held, "peers", t)
         /\ tasks' = [tasks EXCEPT ![t].pc = "lookup", ![t].index = @ + 1,
                                   ![t].new_peers = found]
         /\ UNCHANGED <<events, handled>>
    ELSE /\ locks' = Unlock(held, "swarm")
         /\ tasks' = [tasks EXCEPT ![t].pc = "done", ![t].new_peers = found]
         /\ events' = Append(events, Sent("DiscoveredPeers", found))
         /\ handled' = Append(handled, HandledEvent(tasks[t]))

\* handle_swarm_event, Discovered: `if let Some(..) =
\* self.peers.lock().await.get_mut(&peer.identity.peer_id)`; a known peer
\* gets peer.identity.peer_id added to its rendezvous nodes, for an unknown
\* one the else block calls self.peers.lock() again
DiscoveredLookup(t) ==
    /\ tasks[t].pc = "lookup"
    /\ Acquired("peers", t)
    /\ LET peer == tasks[t].peers[tasks[t].index].peer_id
       IN  IF peer \in DOMAIN network_peers
           THEN /\ network_peers' =
                      [network_peers EXCEPT ![peer].nodes = @ \cup {peer}]
                /\ NextPeer(t, Unlock(locks, "peers"), tasks[t].new_peers)
           ELSE /\ locks' = Lock(IF edition = Some("2024")
                                 THEN Unlock(locks, "peers") ELSE locks,
                                 "peers", t)
                /\ tasks' = [tasks EXCEPT ![t].pc = "insert"]
                /\ UNCHANGED <<network_peers, events, handled>>
    /\ UNCHANGED <<event_loop, edition, responses>>
    /\ HandlersUntouched

\* handle_swarm_event, Discovered: the else block inserts the unknown peer
\* with the rendezvous node of the event
DiscoveredInsert(t) ==
    /\ tasks[t].pc = "insert"
    /\ Acquired("peers", t)
    /\ LET found == tasks[t].peers[tasks[t].index]
       IN  /\ network_peers' = Put(network_peers, found.peer_id,
                                   [nodes |-> {tasks[t].target},
                                    identity |-> found])
           /\ NextPeer(t, Unlock(locks, "peers"),
                       tasks[t].new_peers \cup {found.peer_id})
    /\ UNCHANGED <<event_loop, edition, responses>>
    /\ HandlersUntouched

\* handle_swarm_event, PeerExpired
PeerExpired(t) ==
    /\ tasks[t].pc = "expire"
    /\ Acquired("peers", t)
    /\ LET peer == tasks[t].peers[1].peer_id
           last == /\ peer \in DOMAIN network_peers
                   /\ network_peers[peer].nodes = {tasks[t].target}
       IN  /\ network_peers' =
                 IF last THEN Delete(network_peers, peer)
                 ELSE IF peer \in DOMAIN network_peers
                 THEN [network_peers EXCEPT ![peer].nodes = @ \ {tasks[t].target}]
                 ELSE network_peers
           /\ events' = IF last THEN Append(events, Sent("LostPeer", {peer}))
                        ELSE events
    /\ locks' = Unlock(Unlock(locks, "peers"), "swarm")
    /\ tasks' = [tasks EXCEPT ![t].pc = "done"]
    /\ handled' = Append(handled, HandledEvent(tasks[t]))
    /\ UNCHANGED <<event_loop, edition, responses>>
    /\ HandlersUntouched

\* handle_command with the swarm lock: self.streams.lock(), then with the
\* streams lock self.peers.lock() of ListPeers and GetPeer
CommandLocks(t) ==
    /\ tasks[t].kind = "command"
    /\ \/ /\ tasks[t].pc = "locking" /\ Acquired("swarm", t)
          /\ locks' = Lock(locks, "streams", t)
          /\ tasks' = [tasks EXCEPT ![t].pc = "streams"]
       \/ /\ tasks[t].pc = "streams" /\ Acquired("streams", t)
          /\ locks' = Lock(locks, "peers", t)
          /\ tasks' = [tasks EXCEPT ![t].pc = "peers"]
    /\ UNCHANGED <<network_peers, event_loop, edition, events, responses, handled>>
    /\ HandlersUntouched

\* handle_command: the response is computed and sent on the response
\* channel, then the guards are dropped
CommandResponse(t) ==
    /\ tasks[t].kind = "command" /\ tasks[t].pc = "peers"
    /\ Acquired("peers", t)
    /\ responses' = Append(responses,
          Answered(tasks[t].id, tasks[t].name,
                   IF tasks[t].name = "ListPeers" THEN DOMAIN network_peers
                   ELSE {tasks[t].target} \cap DOMAIN network_peers))
    /\ locks' = Unlock(Unlock(Unlock(locks, "peers"), "streams"), "swarm")
    /\ tasks' = [tasks EXCEPT ![t].pc = "done"]
    /\ UNCHANGED <<network_peers, event_loop, edition, events, handled>>
    /\ HandlersUntouched

\* a step of a spawned task
Handler ==
    \E t \in DOMAIN tasks :
        \/ HandlerStart(t)
        \/ StreamTask(t)
        \/ EventArm(t)
        \/ DiscoveredLookup(t)
        \/ DiscoveredInsert(t)
        \/ PeerExpired(t)
        \/ CommandLocks(t)
        \/ CommandResponse(t)

\* the event loop receives swarm events, commands and streams
NextHandlers ==
    \/ \E e \in Editions : start_event_loop(e)
    \/ LoopLock
    \/ \E task \in HandlerEvents \cup Commands(Len(tasks) + 1) \cup Streams :
          LoopSelect(task)
    \/ LoopExit
    \/ Handler

SpecHandlers == Init /\ [][NextHandlers]_vars

\* the servers that advertise the peer after the first n handled events
RECURSIVE Advertised(_, _)
Advertised(peer, n) ==
    IF n = 0 THEN {}
    ELSE LET before == Advertised(peer, n - 1)
         IN  IF peer \notin handled[n].peers THEN before
             ELSE IF handled[n].name = "Discovered"
             THEN before \cup {handled[n].target}
             ELSE before \ {handled[n].target}

\* the PeerExpired events that came from the last server advertising the peer
LastExpiries(peer) ==
    {n \in DOMAIN handled :
        /\ handled[n].name = "PeerExpired" /\ peer \in handled[n].peers
        /\ Advertised(peer, n - 1) = {handled[n].target}}

LostPeers(peer) ==
    {i \in DOMAIN events :
        events[i].name = "LostPeer" /\ peer \in events[i].peers}

\* no handler is between its first change and its last
BetweenEvents ==
    \A t \in DOMAIN tasks : tasks[t].pc \in {"spawned", "locking", "done"}

\* C36: the facade holds a peer in its peers map exactly while some
\* rendezvous server advertises it (a Discovered from the server was handled
\* and no PeerExpired from it since), and LostPeer was sent once for every
\* PeerExpired that came from the last server advertising the peer
C36_PeerTracking ==
    BetweenEvents =>
        \A peer \in {<<"p">>, <<"q">>} :
            /\ peer \in DOMAIN network_peers
                  <=> Advertised(peer, Len(handled)) # {}
            /\ Cardinality(LostPeers(peer)) = Cardinality(LastExpiries(peer))

\* task t has called lock() on mutex l and the call has not returned
Blocked(t, l) == \E i \in 2..Len(locks[l]) : locks[l][i] = t

\* C37: the handlers are free of deadlock: there is no set of spawned tasks
\* in which every task waits for a mutex that a task of the set holds
C37_DeadlockFree ==
    \A D \in SUBSET (DOMAIN tasks) :
        D # {} =>
            \E t \in D : \A l \in LockNames :
                Blocked(t, l) => Head(locks[l]) \notin D

\* the event loop receives commands and streams and no swarm event
NextCommands ==
    \/ \E e \in Editions : start_event_loop(e)
    \/ LoopLock
    \/ \E task \in Commands(Len(tasks) + 1) \cup Streams : LoopSelect(task)
    \/ LoopExit
    \/ \E t \in DOMAIN tasks :
          \/ HandlerStart(t)
          \/ StreamTask(t)
          \/ CommandLocks(t)
          \/ CommandResponse(t)

SpecCommands == Init /\ [][NextCommands]_vars

\* the runtime runs every task that can take a step; when the next swarm
\* event, command or stream arrives is up to the environment
FairSpecCommands ==
    /\ SpecCommands
    /\ WF_vars(LoopLock)
    /\ \A t \in 1..MaxSpawned :
          WF_vars(t \in DOMAIN tasks /\ (HandlerStart(t) \/ StreamTask(t)
                                          \/ CommandLocks(t) \/ CommandResponse(t)))

\* C38: every command the event loop has received is answered on its
\* response channel
C38_CommandsAnswered ==
    \A c \in 1..MaxSpawned :
        (c \in DOMAIN tasks /\ tasks[c].kind = "command")
            ~> (\E i \in DOMAIN responses : responses[i].id = c)

====
